---- MODULE Spec2Model ----
(***************************************************************************)
(* The root controller of cursive (cursive-core/src/cursive.rs): the       *)
(* event dispatch (on_event), the event loop (run / step / process_events  *)
(* / post_events / refresh), the cross-thread callback channel, the        *)
(* screens and layers, the lookups by name and the wrapper views of        *)
(* src/views.                                                              *)
(*                                                                         *)
(* The Cursive struct is the record `siv`; every method is an operator     *)
(* from a controller record to a controller record, so that a method that  *)
(* calls other methods is the composition of their operators.              *)
(***************************************************************************)
EXTENDS Integers, Sequences, FiniteSets, TLC

VARIABLES
    siv,        \* the Cursive struct (and the backend / channel it owns)
    pc,         \* position of the owner thread in run / step
    boring,     \* local `boring` of process_events
    received,   \* value returned by process_events, passed to post_events
    sent,       \* number of callbacks each producer thread has sent
    in_run,     \* whether the owner thread is inside run()
    widgets,    \* views the application holds outside the tree
    terminal    \* the terminal: how backend_init left it, the calls of finish

vars == <<siv, pc, boring, received, sent, in_run, widgets, terminal>>

----------------------------------------------------------------------------
(* Bounds of the model *)

MaxInput == 2        \* pending input events held by the backend
MaxSent == 2         \* callbacks sent by the producer threads
MaxLayers == 1       \* layers on the screen
MaxCallbacks == 4    \* entries of the root OnEventView callback list
MaxBoring == 36      \* cap of the idle-frame counter
MaxIdle == 1         \* idle cycles in a row made by the event loop
MaxFps == 36         \* largest frame rate given to set_fps
MaxScreens == 2      \* screens of the controller
MaxStack == 3        \* layers on all the screens together
MaxContent == 4      \* characters in the content of an EditView
MaxRows == 2         \* rows of the terminal after a resize

\* the producer threads holding a clone of cb_sink
Producers == {"p1", "p2"}

----------------------------------------------------------------------------
(* Program constants *)

INPUT_POLL_DELAY_MS == 30

----------------------------------------------------------------------------
(* Events (event.rs).  Every event is a record of the same shape; `mouse`, *)
(* `position` and `offset` only matter for mouse events: `position` is the *)
(* absolute cell of the screen (x the column, y the row), and `offset` the *)
(* top-left corner of the view the event is given to.                      *)

\* Vec2::new
Vec2(x, y) == [x |-> x, y |-> y]

\* Vec2::zero
Vec2Zero == Vec2(0, 0)

\* Vec2 + Vec2
Vec2Add(a, b) == Vec2(a.x + b.x, a.y + b.y)

Ev(t) == [type |-> t, mouse |-> "None", position |-> Vec2Zero, offset |-> Vec2Zero]

\* Event::Mouse with the given position and offset
MouseEvAt(m, position, offset) ==
    [type |-> "Mouse", mouse |-> m, position |-> position, offset |-> offset]

\* Event::Mouse as the backend delivers it, in the first column of the row
\* and with offset zero
MouseEv(m, row) == MouseEvAt(m, Vec2(0, row), Vec2Zero)

NoEvent == Ev("None")

ScreenRows == 2

KeyEvents == {Ev("Char_q"), Ev("Enter"), Ev("Esc"), Ev("CtrlC"),
              Ev("Exit"), Ev("WindowResize"), Ev("Refresh")}

MouseEvents == {MouseEv(m, row) : m \in {"Press", "Release"}, row \in 0..(ScreenRows - 1)}

Events == KeyEvents \cup MouseEvents

\* MouseEvent::grabs_focus: a button press grabs the focus
GrabsFocus(e) == e.mouse = "Press"

\* usize::saturating_sub
SaturatingSub(a, b) == IF a >= b THEN a - b ELSE 0

\* Event::relativized(top_left): adds to the offset of a mouse event, on
\* both axes, and leaves its position
Relativized(e, top_left) ==
    IF e.type = "Mouse" THEN [e EXCEPT !.offset = Vec2Add(@, top_left)] ELSE e

----------------------------------------------------------------------------
(* EventResult: Ignored, or Consumed with an optional callback.  A         *)
(* callback is the sequence of the closures EventResult::and combined;     *)
(* Consumed(None) has the empty sequence.                                  *)

Ignored == [consumed |-> FALSE, cb |-> <<>>]

Consumed(cb) == [consumed |-> TRUE, cb |-> cb]

\* what a callback closure does to the controller it is given
CbActs == {"noop", "quit", "clear", "select_menubar", "send",
           "menu_open", "menu_dismiss", "menu_action"}

\* one entry of the log of calls made while a method of the controller runs
Call(op, e, act) == [op |-> op, ev |-> e, act |-> act]

Log(s, op, e, act) == [s EXCEPT !.trace = Append(@, Call(op, e, act))]

----------------------------------------------------------------------------
(* Views.  A layer is a boxed view with the size the last layout gave it,  *)
(* its placement, the name a NamedView wrapper gives it ("" without one),  *)
(* its content and whether it holds the focus.                             *)

ViewKinds == {"TextView", "Button", "EditView"}

\* Identifiable::with_id: wraps the view in a NamedView of that name
WithId(view, id) == [view EXCEPT !.name = id]

\* a view of the given type, as its constructor leaves it; `named` is the
\* type of the view a NamedView inside the layer wraps: the view itself,
\* unless the layer is built around a named view of another type
NewView(kind) ==
    [kind |-> kind, named |-> kind, size |-> 0, name |-> "", full |-> FALSE,
     pos |-> "center", focused |-> FALSE, content |-> "old"]

Layer(kind) == NewView(kind)

\* rows a view asks for
RequiredRows(kind) ==
    CASE kind = "TextView" -> 1
      [] kind = "Button" -> 1
      [] kind = "EditView" -> 1
      [] OTHER -> 2

\* View::on_event of the leaf views
ViewOnEvent(kind, e) ==
    CASE kind = "Button" /\ e.type = "Enter" -> Consumed(<<"quit">>)
      [] kind = "EditView" /\ e.type = "Char_q" -> Consumed(<<>>)
      [] kind = "MenuPopup" /\ e.type = "Esc" -> Consumed(<<"menu_dismiss">>)
      [] kind = "MenuPopup" /\ e.type = "Enter" -> Consumed(<<"menu_action">>)
      [] kind = "MenuPopup" /\ e.mouse = "Press" -> Consumed(<<"menu_dismiss">>)
      [] OTHER -> Ignored

\* StackView::on_event: the top layer gets the event
StackOnEvent(layers, e) ==
    IF layers = <<>> THEN Ignored
    ELSE ViewOnEvent(layers[Len(layers)].kind, e)

----------------------------------------------------------------------------
(* Enableable (views/enableable.rs) around an EditView.                    *)

\* EditView::new
EditViewNew == [kind |-> "EditView", len |-> 0]

\* EditView::on_event: a character goes into the content, Enter submits it
EditViewOnEvent(view, e) ==
    CASE e.type = "Char_q" -> [view |-> [view EXCEPT !.len = @ + 1], result |-> Consumed(<<>>)]
      [] e.type = "Enter" -> [view |-> view, result |-> Consumed(<<"noop">>)]
      [] OTHER -> [view |-> view, result |-> Ignored]

\* Enableable::new
EnableableNew(view) == [view |-> view, enabled |-> TRUE]

\* impl_enabled!: disable
Disable(w) == [w EXCEPT !.enabled = FALSE]

\* impl_enabled!: enable
Enable(w) == [w EXCEPT !.enabled = TRUE]

\* impl_enabled!: set_enabled
SetEnabled(w, enabled) == [w EXCEPT !.enabled = enabled]

\* impl_enabled!: is_enabled
IsEnabled(w) == w.enabled

\* wrap_on_event giving the event to the inner view whether enabled or not
WrapOnEventAlways(w, e) ==
    LET r == EditViewOnEvent(w.view, e)
    IN [view |-> [w EXCEPT !.view = r.view],
        result |-> r.result,
        calls |-> <<Call("view.on_event", e, "")>>]

\* Enableable::wrap_on_event: the wrapper after the call, the result and the
\* calls made on the inner view
WrapOnEvent(w, e) ==
    IF w.enabled
    THEN LET r == EditViewOnEvent(w.view, e)
         IN [view |-> [w EXCEPT !.view = r.view],
             result |-> r.result,
             calls |-> <<Call("view.on_event", e, "")>>]
    ELSE [view |-> w, result |-> Ignored, calls |-> <<>>]

----------------------------------------------------------------------------
(* RadioGroup and RadioButton (views/radio.rs).  The buttons of a group    *)
(* share one SharedState; a button keeps its id and its enabled flag.      *)

MaxButtons == 2

\* the values the buttons embed
RadioValues == {"a", "b"}

\* the events a button is given: Events, the space character, a release
\* inside a view below the first row and a release in the column after
\* the end of a button with a label of one character
RadioEvents ==
    Events \cup {Ev("Char_space")}
           \cup {MouseEvAt("Release", Vec2(0, row), Vec2(0, 1)) : row \in 0..(ScreenRows - 1)}
           \cup {MouseEvAt("Release", Vec2(5, 0), Vec2Zero)}

\* position.fits_in_rect(offset, size): on each axis the position is at or
\* after the corner of the view and before its end
FitsInRect(e, size) ==
    /\ e.position.x >= e.offset.x /\ e.position.x < e.offset.x + size.x
    /\ e.position.y >= e.offset.y /\ e.position.y < e.offset.y + size.y

\* the configuration RadioGroup::new gives its buttons
DEFAULT_RADIO_BUTTON_CONFIG ==
    [check |-> "X", uncheck |-> " ", left_bracket |-> "(", right_bracket |-> ")",
     post_label_space |-> " "]

\* RadioGroup::with_config: an empty group whose buttons get that
\* configuration; `state` is what every button of the group shares
WithConfig(config) ==
    [state |-> [selection |-> 0, values |-> <<>>, on_change |-> <<>>],
     config |-> config]

\* RadioGroup::new: an empty group with the default configuration
RadioGroupNew ==
    [state |-> [selection |-> 0, values |-> <<>>, on_change |-> <<>>],
     config |-> DEFAULT_RADIO_BUTTON_CONFIG]

\* RadioButton::new
RadioButtonNew(id, label, config) ==
    [id |-> id, enabled |-> TRUE, label |-> label, config |-> config]

\* RadioGroup::button making the new button the selected one
ButtonSelectsNew(group, value, label) ==
    LET count == Len(group.state.values)
    IN [group |-> [group EXCEPT !.state.values = Append(@, value),
                                !.state.selection = count],
        button |-> RadioButtonNew(count, label, group.config)]

\* RadioGroup::button: the shared state after the call and the new button
Button(group, value, label) ==
    LET count == Len(group.state.values)
    IN [group |-> [group EXCEPT !.state.values = Append(@, value)],
        button |-> RadioButtonNew(count, label, group.config)]

\* RadioGroup::selected_id
SelectedId(state) == state.selection

\* SharedState::selection: the value of the selected button
Selection(state) == state.values[state.selection + 1]

\* RadioGroup::set_on_change
SetOnChange(state, on_change) == [state EXCEPT !.on_change = <<on_change>>]

\* RadioButton::is_selected
IsSelected(state, b) == state.selection = b.id

\* RadioButton::req_size: the brackets around the mark, then a space and
\* the label when there is one, on one row
ReqSize(state, b) ==
    LET base_length == Len(b.config.left_bracket)
                       + (IF IsSelected(state, b)
                          THEN Len(b.config.check)
                          ELSE Len(b.config.uncheck))
                       + Len(b.config.right_bracket)
    IN IF b.label = ""
       THEN Vec2(base_length, 1)
       ELSE Vec2(base_length + Len(b.config.post_label_space) + Len(b.label), 1)

\* the closure select returns: on_change called with the selected value
OnChangeClosure(on_change, value) == on_change \o ":" \o value

\* select returning its result without storing the selection
SelectNoStore(state, b) ==
    [state |-> state,
     result |-> IF state.on_change # <<>>
                THEN Consumed(<<OnChangeClosure(state.on_change[1], Selection(state))>>)
                ELSE Consumed(<<>>)]

\* select never returning the change callback
SelectNoCallback(state, b) ==
    [state |-> [state EXCEPT !.selection = b.id], result |-> Consumed(<<>>)]

\* RadioButton::select: the shared state after the call and the result
Select(state, b) ==
    LET st == [state EXCEPT !.selection = b.id]
    IN [state |-> st,
        result |-> IF st.on_change # <<>>
                   THEN Consumed(<<OnChangeClosure(st.on_change[1], Selection(st))>>)
                   ELSE Consumed(<<>>)]

\* RadioButton::selected: the result of select is dropped
Selected(state, b) == Select(state, b).state

\* RadioButton::with_selected
WithSelected(state, b, selection) ==
    IF selection THEN Select(state, b).state ELSE state

\* RadioButton::take_focus
RadioTakeFocus(b) == b.enabled

\* RadioButton::on_event
RadioOnEvent(state, b, e) ==
    CASE e.type \in {"Enter", "Char_space"} -> Select(state, b)
      [] e.type = "Mouse" /\ e.mouse = "Release" /\ FitsInRect(e, ReqSize(state, b)) ->
             Select(state, b)
      [] OTHER -> [state |-> state, result |-> Ignored]

----------------------------------------------------------------------------
(* PaddedView (views/padded_view.rs) around a view that remembers the size *)
(* its last layout gave it.                                                *)

MaxSize == 2

MaxMargin == 1

\* Vec2::saturating_sub: on each axis
Vec2SaturatingSub(a, b) == Vec2(SaturatingSub(a.x, b.x), SaturatingSub(a.y, b.y))

\* a size as it is written in the log of calls
VecStr(v) == ToString(v.x) \o "," \o ToString(v.y)

\* the sizes a parent offers
Sizes == {Vec2(x, y) : x \in 0..MaxSize, y \in 0..MaxSize}

\* Margins::lrtb
MarginsLrtb(left, right, top, bottom) ==
    [left |-> left, right |-> right, top |-> top, bottom |-> bottom]

\* the margins an application sets: any left and top margin up to the bound,
\* no margin or the widest one on the right and at the bottom
AllMargins ==
    {MarginsLrtb(l, r, t, b) : l \in 0..MaxMargin, r \in {0, MaxMargin},
                               t \in 0..MaxMargin, b \in {0, MaxMargin}}

\* Margins::combined: (horizontal, vertical)
Combined(margins) == Vec2(margins.left + margins.right, margins.top + margins.bottom)

\* Margins::top_left
TopLeft(margins) == Vec2(margins.left, margins.top)

\* the wrapped view: it wants `want` and has not been laid out
InnerNew == [want |-> Vec2(2, 1), size |-> Vec2Zero]

\* required_size of the wrapped view: what it wants, within what it is offered
InnerRequiredSize(view, req) ==
    Vec2(IF view.want.x <= req.x THEN view.want.x ELSE req.x,
         IF view.want.y <= req.y THEN view.want.y ELSE req.y)

\* layout of the wrapped view
InnerLayout(view, size) == [view EXCEPT !.size = size]

\* on_event of the wrapped view: a mouse event inside it is consumed
InnerOnEvent(view, e) ==
    [view |-> view,
     result |-> IF e.type = "Mouse" /\ FitsInRect(e, view.size) THEN Consumed(<<>>) ELSE Ignored]

\* PaddedView::new
PaddedNew(margins, view) == [view |-> view, margins |-> margins]

\* PaddedView::set_margins
SetMargins(p, margins) == [p EXCEPT !.margins = margins]

\* PaddedView::wrap_required_size: the size it answers and the calls made on
\* the wrapped view
WrapRequiredSize(p, req) ==
    LET margins == Combined(p.margins)
        inner == Vec2SaturatingSub(req, margins)
    IN [size |-> Vec2Add(InnerRequiredSize(p.view, inner), margins),
        calls |-> <<Call("view.required_size", NoEvent, VecStr(inner))>>]

\* PaddedView::wrap_layout
WrapLayout(p, size) ==
    LET margins == Combined(p.margins)
        inner == Vec2SaturatingSub(size, margins)
    IN [view |-> [p EXCEPT !.view = InnerLayout(@, inner)],
        calls |-> <<Call("view.layout", NoEvent, VecStr(inner))>>]

\* wrap_on_event relativizing by the top margin alone
PaddedWrapOnEventTopOnly(p, e) ==
    LET padding == Vec2(0, p.margins.top)
        r == InnerOnEvent(p.view, Relativized(e, padding))
    IN [view |-> [p EXCEPT !.view = r.view],
        result |-> r.result,
        calls |-> <<Call("view.on_event", Relativized(e, padding), "")>>]

\* PaddedView::wrap_on_event: the event relativized by margins.top_left()
PaddedWrapOnEvent(p, e) ==
    LET padding == TopLeft(p.margins)
        r == InnerOnEvent(p.view, Relativized(e, padding))
    IN [view |-> [p EXCEPT !.view = r.view],
        result |-> r.result,
        calls |-> <<Call("view.on_event", Relativized(e, padding), "")>>]

----------------------------------------------------------------------------
(* Tracked (views/tracked.rs) around the same kind of view.  Only draw is  *)
(* written in tracked.rs; the other operations are the defaults of         *)
(* ViewWrapper, which give the call to the wrapped view.                   *)

\* the printer a parent draws the view with
PrinterAt(offset) == [offset |-> offset]

\* Tracked::new
TrackedNew(view) == [view |-> view, offset |-> Vec2Zero]

\* Tracked::offset
Offset(t) == t.offset

\* wrap_draw drawing the view without recording the offset
TrackedWrapDrawNoRecord(t, printer) ==
    [view |-> t,
     calls |-> <<Call("view.draw", NoEvent, VecStr(printer.offset))>>]

\* Tracked::wrap_draw: the wrapper after the call and the calls made on the
\* wrapped view
TrackedWrapDraw(t, printer) ==
    [view |-> [t EXCEPT !.offset = printer.offset],
     calls |-> <<Call("view.draw", NoEvent, VecStr(printer.offset))>>]

\* ViewWrapper::wrap_required_size
TrackedWrapRequiredSize(t, req) ==
    [size |-> InnerRequiredSize(t.view, req),
     calls |-> <<Call("view.required_size", NoEvent, VecStr(req))>>]

\* ViewWrapper::wrap_layout
TrackedWrapLayout(t, size) ==
    [view |-> [t EXCEPT !.view = InnerLayout(@, size)],
     calls |-> <<Call("view.layout", NoEvent, VecStr(size))>>]

\* ViewWrapper::wrap_on_event
TrackedWrapOnEvent(t, e) ==
    LET r == InnerOnEvent(t.view, e)
    IN [view |-> [t EXCEPT !.view = r.view],
        result |-> r.result,
        calls |-> <<Call("view.on_event", e, "")>>]

----------------------------------------------------------------------------
(* The root OnEventView: a list of (trigger, phase, callback), around the  *)
(* ScreensView holding one StackView for every screen.                     *)

\* Cursive::screen: the layers of the active screen
Screen(s) == s.screens[s.active_screen + 1]

\* screen_mut giving the first screen whatever screen is active
ScreenMutFirst(s, layers) == [s EXCEPT !.screens[1] = layers]

\* Cursive::screen_mut, assigned the given layers
ScreenMut(s, layers) == [s EXCEPT !.screens[s.active_screen + 1] = layers]

\* Cursive::active_screen
ActiveScreen(s) == s.active_screen

\* what the closure of an entry of the root's callbacks returns when it is
\* called: None ("none"), Some(Ignored) ("ignored"), Some(Consumed(None))
\* ("consumed") or Some(Consumed(Some(cb))) ("with_cb", cb doing `act`)
InnerAnswers == {"none", "ignored", "consumed", "with_cb"}

\* an entry registered with an inner callback that returns `answer`
InnerEntry(trigger, phase, answer, act) ==
    [trigger |-> trigger, phase |-> phase, answer |-> answer, act |-> act]

\* an entry registered with a callback on the controller: its closure
\* returns Some(EventResult::with_cb(cb))
CallbackEntry(trigger, phase, act) == InnerEntry(trigger, phase, "with_cb", act)

\* the event result an entry that does not decline answers with
EntryResult(c) ==
    CASE c.answer = "with_cb" -> Consumed(<<c.act>>)
      [] c.answer = "consumed" -> Consumed(<<>>)
      [] OTHER -> Ignored

\* EventResult::and
And(a, b) ==
    IF ~a.consumed THEN b
    ELSE IF ~b.consumed THEN a
    ELSE Consumed(a.cb \o b.cb)

RECURSIVE AndAll(_)
\* the results folded with EventResult::and, Ignored when there is none
AndAll(results) ==
    IF results = <<>> THEN Ignored ELSE And(Head(results), AndAll(Tail(results)))

RECURSIVE Triggered(_, _, _)
\* the answers of the entries of the given phase whose trigger applies to the
\* event and whose closure does not decline, in registration order
Triggered(callbacks, phase, e) ==
    IF callbacks = <<>> THEN <<>>
    ELSE LET c == Head(callbacks)
             rest == Triggered(Tail(callbacks), phase, e)
         IN IF c.phase = phase /\ c.trigger = e /\ c.answer # "none"
            THEN <<EntryResult(c)>> \o rest
            ELSE rest

\* the callbacks the entries of the given phase answer the event with, in
\* registration order
Matching(callbacks, phase, e) == AndAll(Triggered(callbacks, phase, e)).cb

\* whether the inner view of the root is given the event: no pre-event
\* callback answers it
RootReachesInner(s, e) == Triggered(s.callbacks, "BeforeChild", e) = <<>>

\* OnEventView::wrap_on_event around a view that answers `inner`: the
\* answers of the pre-event callbacks, else the inner view; when that is
\* Ignored, the answers of the post-event callbacks
RootOnEventAround(s, e, inner) ==
    LET pre == Triggered(s.callbacks, "BeforeChild", e)
        first == IF pre # <<>> THEN AndAll(pre) ELSE inner
    IN IF first.consumed THEN first
       ELSE AndAll(Triggered(s.callbacks, "AfterChild", e))

\* OnEventView::wrap_on_event around the StackView of the active screen
RootOnEvent(s, e) == RootOnEventAround(s, e, StackOnEvent(Screen(s), e))

----------------------------------------------------------------------------
(* The menubar.                                                            *)

\* Menubar::receive_events
ReceiveEvents(m) == m.state = "Selected"

\* Menubar::has_submenu
HasSubmenu(m) == m.state = "Submenu"

\* Menubar::visible
Visible(m) == ~m.autohide \/ m.state # "Inactive"

\* Menubar::take_focus
MenubarTakeFocus(m) == [m EXCEPT !.state = "Selected"]

\* Menubar::on_event: the new menubar and the event result
MenubarOnEvent(m, e) ==
    CASE e.type = "Esc" ->
            [menubar |-> [m EXCEPT !.state = "Inactive"], result |-> Consumed(<<"clear">>)]
      [] e.type = "Enter" /\ m.item = "Leaf" ->
            [menubar |-> [m EXCEPT !.state = "Inactive"], result |-> Consumed(<<"noop">>)]
      [] e.type = "Enter" /\ m.item = "Subtree" ->
            [menubar |-> [m EXCEPT !.state = "Submenu"], result |-> Consumed(<<"menu_open">>)]
      [] e.mouse = "Press" /\ e.position.y = 0 ->
            [menubar |-> m, result |-> Consumed(<<>>)]
      [] e.mouse = "Press" /\ e.position.y # 0 ->
            [menubar |-> [m EXCEPT !.state = "Inactive"], result |-> Consumed(<<"clear">>)]
      [] e.mouse = "Release" /\ e.position.y = 0 /\ m.item = "Subtree" ->
            [menubar |-> [m EXCEPT !.state = "Submenu"], result |-> Consumed(<<"menu_open">>)]
      [] OTHER ->
            [menubar |-> m, result |-> Ignored]

----------------------------------------------------------------------------
(* Methods of Cursive.                                                     *)

\* Cursive::select_menubar
SelectMenubar(s) ==
    Log([s EXCEPT !.menubar = MenubarTakeFocus(@)], "select_menubar", NoEvent, "")

\* Cursive::clear
Clear(s) == Log(s, "clear", NoEvent, "")

\* Cursive::quit
Quit(s) == [s EXCEPT !.running = FALSE]

\* Cursive::is_running
IsRunning(s) == s.running

\* Cursive::set_fps: NonZeroU32::new(fps), 0 standing for None
SetFpsOf(s, f) == [s EXCEPT !.fps = f]

\* Cursive::set_autohide_menu
SetAutohideMenu(s, b) == [s EXCEPT !.menubar.autohide = b]

\* set_on_pre_event registering a post-event callback
SetOnPreEventAfterChild(s, trigger, act) ==
    [s EXCEPT !.callbacks = Append(@, CallbackEntry(trigger, "AfterChild", act))]

\* Cursive::set_on_pre_event
SetOnPreEvent(s, trigger, act) ==
    [s EXCEPT !.callbacks = Append(@, CallbackEntry(trigger, "BeforeChild", act))]

\* Cursive::set_on_pre_event_inner, with a closure that returns `answer`
SetOnPreEventInner(s, trigger, answer, act) ==
    [s EXCEPT !.callbacks = Append(@, InnerEntry(trigger, "BeforeChild", answer, act))]

\* Cursive::set_on_event_inner, with a closure that returns `answer`
SetOnEventInner(s, trigger, answer, act) ==
    [s EXCEPT !.callbacks = Append(@, InnerEntry(trigger, "AfterChild", answer, act))]

\* Cursive::set_on_post_event
SetOnPostEvent(s, trigger, act) ==
    [s EXCEPT !.callbacks = Append(@, CallbackEntry(trigger, "AfterChild", act))]

\* Cursive::add_global_callback
AddGlobalCallbackOf(s, e, act) == SetOnPostEvent(s, e, act)

\* Cursive::clear_global_callbacks: removes any callback tied to the event
ClearGlobalCallbacksOf(s, e) ==
    [s EXCEPT !.callbacks = SelectSeq(@, LAMBDA c : c.trigger # e)]

\* set_global_callback adding the callback to the ones of the event
SetGlobalCallbackKeepsOthers(s, e, act) == AddGlobalCallbackOf(s, e, act)

\* Cursive::set_global_callback: clear_global_callbacks, then add_global_callback
SetGlobalCallbackOf(s, e, act) ==
    AddGlobalCallbackOf(ClearGlobalCallbacksOf(s, e), e, act)

\* reset_default_callbacks without the callback of Event::Exit
ResetDefaultCallbacksNoExit(s) ==
    SetOnPreEvent(
        SetOnPreEvent(s, Ev("CtrlC"), "quit"),
        Ev("WindowResize"), "clear")

\* Cursive::reset_default_callbacks
ResetDefaultCallbacks(s) ==
    SetOnPreEvent(
        SetOnPreEvent(
            SetOnPreEvent(s, Ev("CtrlC"), "quit"),
            Ev("Exit"), "quit"),
        Ev("WindowResize"), "clear")

\* StackView::add_layer: a floating layer on top
StackAddLayer(layers, view) == Append(layers, [view EXCEPT !.full = FALSE])

\* StackView::add_fullscreen_layer: a full-screen layer on top
StackAddFullscreenLayer(layers, view) == Append(layers, [view EXCEPT !.full = TRUE])

\* StackView::pop_layer: the layers left and the view taken from the top
StackPopLayer(layers) ==
    IF layers = <<>> THEN [layers |-> layers, view |-> "None"]
    ELSE [layers |-> SubSeq(layers, 1, Len(layers) - 1), view |-> "Some"]

\* StackView::reposition_layer of the layer at FromBack(i): a floating layer
\* takes the position, a full-screen layer stays
StackRepositionLayer(layers, i, position) ==
    IF i + 1 \in 1..Len(layers) /\ ~layers[i + 1].full
    THEN [layers EXCEPT ![i + 1].pos = position]
    ELSE layers

\* Cursive::add_layer on the active screen
AddLayerOf(s, view) == ScreenMut(s, StackAddLayer(Screen(s), view))

\* add_fullscreen_layer putting the layer in the place of the stack
AddFullscreenLayerAlone(s, view) == ScreenMut(s, StackAddFullscreenLayer(<<>>, view))

\* Cursive::add_fullscreen_layer
AddFullscreenLayerOf(s, view) == ScreenMut(s, StackAddFullscreenLayer(Screen(s), view))

\* Cursive::pop_layer
PopLayerOf(s) == ScreenMut(s, StackPopLayer(Screen(s)).layers)

\* the value Cursive::pop_layer returns
PopLayerResult(s) == StackPopLayer(Screen(s)).view

\* Cursive::reposition_layer
RepositionLayerOf(s, i, position) ==
    ScreenMut(s, StackRepositionLayer(Screen(s), i, position))

\* Selector::Name
NameSelector(name) == [by |-> "Name", name |-> name]

\* the smallest number of a non-empty set
Lowest(set) == CHOOSE i \in set : \A j \in set : i <= j

\* NamedView::call_on_any under Finder::call_on: the layers, in the order of
\* the walk, that carry the name and are of the asked type
NamedMatches(layers, sel, type) ==
    {i \in 1..Len(layers) : layers[i].name = sel.name /\ layers[i].named = type}

\* the layers that carry the name
Named(layers, sel) == {i \in 1..Len(layers) : layers[i].name = sel.name}

\* the name of the view the debug console holds
DEBUG_VIEW_NAME == "_cursive_debug_view"

\* the Dialog of the debug console, around a ScrollView around the DebugView
\* that carries the name
DebugConsole ==
    [NewView("Dialog") EXCEPT !.name = DEBUG_VIEW_NAME, !.named = "DebugView"]

\* StackView::find_layer_from_name: the layers that hold a view of that name
FindLayerFromName(layers, name) == Named(layers, NameSelector(name))

\* StackView::remove_layer of the layer at FromBack(i - 1)
StackRemoveLayer(layers, i) ==
    SubSeq(layers, 1, i - 1) \o SubSeq(layers, i + 1, Len(layers))

\* Cursive::show_debug_console
ShowDebugConsole(s) == AddLayerOf(s, DebugConsole)

\* Cursive::toggle_debug_console: removes the first layer that holds the
\* debug view, wherever it is in the stack, or shows the console
ToggleDebugConsole(s) ==
    LET found == FindLayerFromName(Screen(s), DEBUG_VIEW_NAME)
    IN IF found # {}
       THEN ScreenMut(s, StackRemoveLayer(Screen(s), Lowest(found)))
       ELSE ShowDebugConsole(s)

\* the closure given to call_on, run on the view found: the content it sets
\* is the content of the named view, and a DebugView has none to set
ApplyClosure(view, closure) ==
    IF closure = "set_content" /\ view.named # "DebugView"
    THEN [view EXCEPT !.content = "new"]
    ELSE view

\* call_on running the closure on the top layer when no view is found
CallOnTopLayer(s, sel, type, closure) ==
    LET layers == Screen(s)
        found == NamedMatches(layers, sel, type)
        i == IF found = {} THEN Len(layers) ELSE Lowest(found)
    IN IF i = 0
       THEN Log(s, "call_on", NoEvent, "None")
       ELSE Log(ScreenMut(Log(s, "closure", NoEvent, ToString(i)),
                          [layers EXCEPT ![i] = ApplyClosure(@, closure)]),
                "call_on", NoEvent, IF found = {} THEN "None" ELSE "Some")

\* Cursive::call_on: the closure runs on the first view found of the asked
\* type, and its result comes back in Some
CallOnOf(s, sel, type, closure) ==
    LET layers == Screen(s)
        found == NamedMatches(layers, sel, type)
    IN IF found = {}
       THEN Log(s, "call_on", NoEvent, "None")
       ELSE Log(ScreenMut(Log(s, "closure", NoEvent, ToString(Lowest(found))),
                          [layers EXCEPT ![Lowest(found)] = ApplyClosure(@, closure)]),
                "call_on", NoEvent, "Some")

\* call_on_name looking for the name alone
CallOnNameAnyType(s, name, type, closure) ==
    LET layers == Screen(s)
        found == Named(layers, NameSelector(name))
    IN IF found = {}
       THEN Log(s, "call_on", NoEvent, "None")
       ELSE Log(ScreenMut(Log(s, "closure", NoEvent, ToString(Lowest(found))),
                          [layers EXCEPT ![Lowest(found)] = ApplyClosure(@, closure)]),
                "call_on", NoEvent, "Some")

\* Cursive::call_on_name
CallOnNameOf(s, name, type, closure) == CallOnOf(s, NameSelector(name), type, closure)

\* Cursive::find_name: the closure is NamedView::get_mut
FindNameOf(s, id, type) == CallOnNameOf(s, id, type, "get_mut")

\* View::take_focus of the view that carries the name of the layer
TakeFocus(view) == view.named \in {"Button", "EditView"}

\* View::focus_view from the root: the first view of that name takes the
\* focus if it accepts it
RootFocusView(layers, sel) ==
    LET found == Named(layers, sel)
    IN IF found # {} /\ TakeFocus(layers[Lowest(found)])
       THEN [layers |-> [i \in 1..Len(layers) |->
                            [layers[i] EXCEPT !.focused = (i = Lowest(found))]],
             result |-> "Ok"]
       ELSE [layers |-> layers, result |-> "Err"]

\* focus returning Ok(()) whatever the root view returns
FocusAlwaysOk(s, sel) ==
    Log(ScreenMut(s, RootFocusView(Screen(s), sel).layers), "focus", NoEvent, "Ok")

\* Cursive::focus
FocusOf(s, sel) ==
    LET r == RootFocusView(Screen(s), sel)
    IN Log(ScreenMut(s, r.layers), "focus", NoEvent, r.result)

\* Cursive::focus_name
FocusNameOf(s, name) == FocusOf(s, NameSelector(name))

\* ScreensView::add_screen: the new screen takes the next id
ScreensAddScreen(screens, stack) == Append(screens, stack)

\* Cursive::add_screen, with the id it returns
AddScreenOf(s) ==
    Log([s EXCEPT !.screens = ScreensAddScreen(@, <<>>)],
        "add_screen", NoEvent, ToString(Len(s.screens)))

\* ScreensView::set_active_screen panics on an id of no screen
ValidScreen(s, screen_id) == screen_id < Len(s.screens)

\* Cursive::set_screen
SetScreenOf(s, screen_id) ==
    IF ValidScreen(s, screen_id)
    THEN Log([s EXCEPT !.active_screen = screen_id], "set_screen", NoEvent, ToString(screen_id))
    ELSE Log(s, "panic", NoEvent, ToString(screen_id))

\* add_active_screen leaving the active screen as it is
AddActiveScreenInactive(s) ==
    LET res == Len(s.screens)
    IN Log(AddScreenOf(s), "add_active_screen", NoEvent, ToString(res))

\* Cursive::add_active_screen
AddActiveScreenOf(s) ==
    LET res == Len(s.screens)
    IN Log(SetScreenOf(AddScreenOf(s), res), "add_active_screen", NoEvent, ToString(res))

\* the types of user data an application stores or asks for; "unit" is ()
DataTypes == {"unit", "i32", "String", "Vec"}

MaxValue == 3

\* Box::new(value) of a value of that type
Data(type, value) == [type |-> type, value |-> value]

\* Box::new(())
UnitData == Data("unit", 0)

\* the values an application stores
UserValues == {Data(type, value) : type \in DataTypes \ {"unit"}, value \in 1..MaxValue}
                 \cup {UnitData}

\* Cursive::set_user_data
SetUserData(s, user_data) == [s EXCEPT !.user_data = user_data]

\* Cursive::user_data: Some(the stored data) if it is of that type
UserData(s, type) ==
    IF s.user_data.type = type THEN <<s.user_data>> ELSE <<>>

\* Cursive::take_user_data: the controller after the call and the result
TakeUserData(s, type) ==
    LET user_data == s.user_data
        s1 == [s EXCEPT !.user_data = UnitData]
    IN IF user_data.type = type
       THEN [siv |-> s1, result |-> <<user_data>>]
       ELSE [siv |-> [s1 EXCEPT !.user_data = user_data], result |-> <<>>]

\* Cursive::with_user_data with a closure that stores a value in the data
WithUserData(s, type, value) ==
    IF UserData(s, type) # <<>>
    THEN [siv |-> [s EXCEPT !.user_data.value = value], result |-> <<Data("unit", 0)>>]
    ELSE [siv |-> s, result |-> <<>>]

\* an Option as it is written in the log of calls
OptionStr(o) ==
    IF o = <<>> THEN "None"
    ELSE "Some(" \o o[1].type \o ":" \o ToString(o[1].value) \o ")"

\* Sender::send on cb_sink: the unbounded channel takes the callback at its end
ChannelSend(s, cb) == [s EXCEPT !.cb_queue = Append(@, cb), !.nsent = @ + 1]

\* the boxed closure a sender gives to the channel
Boxed(s, act) == [id |-> s.nsent + 1, act |-> act]

\* the body of a callback closure, run against the controller
CallbackBody(s, act) ==
    CASE act = "quit" -> Quit(s)
      [] act = "clear" -> Clear(s)
      [] act = "select_menubar" -> SelectMenubar(s)
      [] act = "send" -> ChannelSend(s, Boxed(s, "noop"))
      [] act = "menu_open" -> AddLayerOf(s, Layer("MenuPopup"))
      [] act = "menu_dismiss" -> SelectMenubar(PopLayerOf(s))
      [] act = "menu_action" -> [PopLayerOf(s) EXCEPT !.menubar.state = "Inactive"]
      [] OTHER -> s

\* cb(self)
RunCallback(s, act) == CallbackBody(Log(s, "cb", NoEvent, act), act)

RECURSIVE RunCallbacks(_, _)
\* the combined callback of an event result, run against the controller
RunCallbacks(s, cbs) ==
    IF cbs = <<>> THEN s ELSE RunCallbacks(RunCallback(s, Head(cbs)), Tail(cbs))

\* the mouse rule without the test of the open submenu
MouseSelectsMenubarAnyState(s, e) ==
    /\ e.type = "Mouse"
    /\ GrabsFocus(e)
    /\ ~s.menubar.autohide
    /\ e.position.y = 0

\* the mouse rule of Cursive::on_event
MouseSelectsMenubar(s, e) ==
    /\ e.type = "Mouse"
    /\ GrabsFocus(e)
    /\ ~s.menubar.autohide
    /\ ~HasSubmenu(s.menubar)
    /\ e.position.y = 0

\* the row offset the menubar takes
MenuOffset(s) == IF s.menubar.autohide THEN 0 ELSE 1

\* View::on_event(&mut self.root, event): the calls the root view makes
CallRoot(s, rel) ==
    LET s2 == Log(s, "root.on_event", rel, "")
    IN IF RootReachesInner(s, rel) THEN Log(s2, "stack.on_event", rel, "") ELSE s2

\* on_event dropping the callback of the event result
OnEventDropsCallback(s, e) ==
    LET s0 == Log(s, "on_event", e, "")
        s1 == IF MouseSelectsMenubar(s0, e) THEN SelectMenubar(s0) ELSE s0
    IN IF ReceiveEvents(s1.menubar)
       THEN LET r == MenubarOnEvent(s1.menubar, e)
                s2 == Log([s1 EXCEPT !.menubar = r.menubar], "menubar.on_event", e, "")
            IN RunCallbacks(s2, r.result.cb)
       ELSE CallRoot(s1, Relativized(e, Vec2(0, MenuOffset(s1))))

\* on_event running the callback of the event result twice
OnEventRunsTwice(s, e) ==
    LET s0 == Log(s, "on_event", e, "")
        s1 == IF MouseSelectsMenubar(s0, e) THEN SelectMenubar(s0) ELSE s0
    IN IF ReceiveEvents(s1.menubar)
       THEN LET r == MenubarOnEvent(s1.menubar, e)
                s2 == Log([s1 EXCEPT !.menubar = r.menubar], "menubar.on_event", e, "")
            IN RunCallbacks(s2, r.result.cb)
       ELSE LET rel == Relativized(e, Vec2(0, MenuOffset(s1)))
                result == RootOnEvent(s1, rel)
                s2 == CallRoot(s1, rel)
            IN RunCallbacks(s2, result.cb \o result.cb)

\* on_event giving the event to the tree as well as to the selected menubar
OnEventAlsoTree(s, e) ==
    LET s0 == Log(s, "on_event", e, "")
        s1 == IF MouseSelectsMenubar(s0, e) THEN SelectMenubar(s0) ELSE s0
        r == MenubarOnEvent(s1.menubar, e)
        s2 == IF ReceiveEvents(s1.menubar)
              THEN RunCallbacks(
                       Log([s1 EXCEPT !.menubar = r.menubar], "menubar.on_event", e, ""),
                       r.result.cb)
              ELSE s1
        rel == Relativized(e, Vec2(0, MenuOffset(s2)))
    IN RunCallbacks(CallRoot(s2, rel), RootOnEvent(s2, rel).cb)

\* on_event running the post-event callbacks after a view consumed the event
OnEventGlobalAlways(s, e) ==
    LET s0 == Log(s, "on_event", e, "")
        s1 == IF MouseSelectsMenubar(s0, e) THEN SelectMenubar(s0) ELSE s0
    IN IF ReceiveEvents(s1.menubar)
       THEN LET r == MenubarOnEvent(s1.menubar, e)
                s2 == Log([s1 EXCEPT !.menubar = r.menubar], "menubar.on_event", e, "")
            IN RunCallbacks(s2, r.result.cb)
       ELSE LET rel == Relativized(e, Vec2(0, MenuOffset(s1)))
                result == RootOnEvent(s1, rel)
                s2 == CallRoot(s1, rel)
                post == IF RootReachesInner(s1, rel) /\ StackOnEvent(Screen(s1), rel).consumed
                        THEN Matching(s1.callbacks, "AfterChild", rel)
                        ELSE <<>>
            IN RunCallbacks(s2, result.cb \o post)

\* Cursive::on_event
OnEvent(s, e) ==
    LET s0 == Log(s, "on_event", e, "")
        s1 == IF MouseSelectsMenubar(s0, e) THEN SelectMenubar(s0) ELSE s0
    IN IF ReceiveEvents(s1.menubar)
       THEN LET r == MenubarOnEvent(s1.menubar, e)
                s2 == Log([s1 EXCEPT !.menubar = r.menubar], "menubar.on_event", e, "")
            IN RunCallbacks(s2, r.result.cb)
       ELSE LET rel == Relativized(e, Vec2(0, MenuOffset(s1)))
                result == RootOnEvent(s1, rel)
                s2 == CallRoot(s1, rel)
            IN IF result.consumed /\ result.cb # <<>>
               THEN RunCallbacks(s2, result.cb)
               ELSE s2

\* Cursive::on_event when the view the tree gives its events to is the
\* RadioButton b: the controller and the shared state after the call
OnEventRadio(s, state, b, e) ==
    LET s0 == Log(s, "on_event", e, "")
        s1 == IF MouseSelectsMenubar(s0, e) THEN SelectMenubar(s0) ELSE s0
    IN IF ReceiveEvents(s1.menubar)
       THEN [siv |-> OnEvent(s, e), state |-> state]
       ELSE LET rel == Relativized(e, Vec2(0, MenuOffset(s1)))
                reaches == RootReachesInner(s1, rel)
                r == IF reaches THEN RadioOnEvent(state, b, rel)
                     ELSE [state |-> state, result |-> Ignored]
                result == RootOnEventAround(s1, rel, r.result)
                s2 == Log(s1, "root.on_event", rel, "")
                s3 == IF reaches THEN Log(s2, "radio.on_event", rel, ToString(b.id)) ELSE s2
            IN [siv |-> IF result.consumed /\ result.cb # <<>>
                        THEN RunCallbacks(s3, result.cb)
                        ELSE s3,
                state |-> r.state]

\* Cursive::screen_size: the rows the backend reports
ScreenSize(s) == s.screen_size

\* the size a layer takes of the rows the layout gives it
Fit(l, avail) ==
    [l EXCEPT !.size = IF ~l.full /\ RequiredRows(l.kind) <= avail
                        THEN RequiredRows(l.kind) ELSE avail]

\* layout giving the tree every row of the screen
LayoutWholeScreen(s) ==
    LET size == ScreenSize(s)
    IN Log(Log(ScreenMut(s, [i \in 1..Len(Screen(s)) |-> Fit(Screen(s)[i], size)]),
               "layout", NoEvent, ""),
           "root.layout", NoEvent, ToString(size))

\* Cursive::layout: every layer gets its size
Layout(s) ==
    LET offset == MenuOffset(s)
        size == SaturatingSub(ScreenSize(s), offset)
    IN Log(Log(ScreenMut(s, [i \in 1..Len(Screen(s)) |-> Fit(Screen(s)[i], size)]),
               "layout", NoEvent, ""),
           "root.layout", NoEvent, ToString(size))

\* StackView::layer_sizes
LayerSizes(s) == [i \in 1..Len(Screen(s)) |-> Screen(s)[i].size]

\* the passes of draw after the test of the sizes: the background of the
\* stack, the menubar when it is visible, the layers of the stack
DrawPasses(s) ==
    LET offset == MenuOffset(s)
        s1 == Log(s, "draw", NoEvent, "")
        s2 == Log(s1, "root.draw", NoEvent, ToString(offset))
        s3 == Log(s2, "draw_bg", NoEvent, ToString(offset))
        s4 == IF Visible(s.menubar) THEN Log(s3, "menubar.draw", NoEvent, "") ELSE s3
    IN Log(s4, "draw_fg", NoEvent, ToString(offset))

\* draw that never records the sizes it drew
DrawKeepsLastSizes(s) ==
    LET sizes == LayerSizes(s)
        s1 == IF s.last_sizes # sizes THEN Clear(s) ELSE s
    IN DrawPasses(s1)

\* draw with the menubar drawn over the layers
DrawMenubarLast(s) ==
    LET sizes == LayerSizes(s)
        offset == MenuOffset(s)
        s1 == IF s.last_sizes # sizes
              THEN [Clear(s) EXCEPT !.last_sizes = sizes]
              ELSE s
        s2 == Log(s1, "draw", NoEvent, "")
        s3 == Log(s2, "root.draw", NoEvent, ToString(offset))
        s4 == Log(s3, "draw_bg", NoEvent, ToString(offset))
        s5 == Log(s4, "draw_fg", NoEvent, ToString(offset))
    IN IF Visible(s.menubar) THEN Log(s5, "menubar.draw", NoEvent, "") ELSE s5

\* Cursive::draw
Draw(s) ==
    LET sizes == LayerSizes(s)
        s1 == IF s.last_sizes # sizes
              THEN [Clear(s) EXCEPT !.last_sizes = sizes]
              ELSE s
    IN DrawPasses(s1)

\* Cursive::refresh
Refresh(s) ==
    LET s1 == Log([s EXCEPT !.boring_frame_count = 0], "boring_frame_count", NoEvent, "0")
    IN Log(Draw(Layout(s1)), "backend.refresh", NoEvent, "")

\* the number of idle iterations, never less than one
RepeatsAtLeastOne(f) ==
    IF (1000 \div INPUT_POLL_DELAY_MS) \div f < 1 THEN 1
    ELSE (1000 \div INPUT_POLL_DELAY_MS) \div f

\* the number of idle iterations before a redraw is forced
Repeats(f) == (1000 \div INPUT_POLL_DELAY_MS) \div f

\* the condition of post_events, drawing when no frame rate is set
DeservesDrawWhenDisabled(s, received_something) ==
    \/ received_something
    \/ IF s.fps # 0 THEN s.boring_frame_count >= Repeats(s.fps) ELSE TRUE

\* the condition of post_events, drawing one idle cycle later
DeservesDrawLate(s, received_something) ==
    \/ received_something
    \/ IF s.fps # 0 THEN s.boring_frame_count > Repeats(s.fps) ELSE FALSE

\* the condition of post_events
DeservesDraw(s, received_something) ==
    \/ received_something
    \/ IF s.fps # 0 THEN s.boring_frame_count >= Repeats(s.fps) ELSE FALSE

\* post_events dispatching the refresh event before every redraw
PostEventsAlwaysTicks(s, received_something) ==
    LET isBoring == ~received_something
        s0 == Log(s, "post_events", NoEvent, IF received_something THEN "true" ELSE "false")
        s1 == IF DeservesDraw(s0, received_something)
              THEN Refresh(OnEvent(s0, Ev("Refresh")))
              ELSE s0
    IN IF isBoring
       THEN [s1 EXCEPT !.boring_frame_count = @ + 1]
       ELSE s1

\* post_events counting the idle frame before the test of the frame rate
PostEventsCountsFirst(s, received_something) ==
    LET isBoring == ~received_something
        s0 == Log(s, "post_events", NoEvent, IF received_something THEN "true" ELSE "false")
        s1 == IF isBoring THEN [s0 EXCEPT !.boring_frame_count = @ + 1] ELSE s0
    IN IF DeservesDraw(s1, received_something)
       THEN Refresh(IF isBoring THEN OnEvent(s1, Ev("Refresh")) ELSE s1)
       ELSE s1

\* Cursive::post_events up to the redraw it deserves
PostEventsRedraw(s, received_something) ==
    LET isBoring == ~received_something
        s0 == Log(s, "post_events", NoEvent, IF received_something THEN "true" ELSE "false")
    IN IF DeservesDraw(s0, received_something)
       THEN Refresh(IF isBoring THEN OnEvent(s0, Ev("Refresh")) ELSE s0)
       ELSE s0

\* Cursive::post_events after the redraw, when nothing was received: the
\* thread sleeps INPUT_POLL_DELAY_MS milliseconds, then counts the idle frame
SleepAndCount(s) ==
    [Log(s, "sleep", NoEvent, ToString(INPUT_POLL_DELAY_MS))
        EXCEPT !.boring_frame_count = @ + 1]

\* Cursive::post_events
PostEventsOf(s, received_something) ==
    LET s1 == PostEventsRedraw(s, received_something)
    IN IF ~received_something THEN SleepAndCount(s1) ELSE s1

\* Backend::poll_event
PollEvent(s) == [event |-> Head(s.input), siv |-> [s EXCEPT !.input = Tail(@)]]

\* try_recv taking the callback sent last
TryRecvLast(s) ==
    [cb |-> s.cb_queue[Len(s.cb_queue)],
     siv |-> [s EXCEPT !.cb_queue = SubSeq(@, 1, Len(@) - 1)]]

\* Receiver::try_recv on cb_source
TryRecv(s) == [cb |-> Head(s.cb_queue), siv |-> [s EXCEPT !.cb_queue = Tail(@)]]

\* Cursive::try_new with a backend that initialises
TryNew ==
    ResetDefaultCallbacks(
        [running |-> TRUE,
         fps |-> 0,
         boring_frame_count |-> 0,
         menubar |-> [autohide |-> TRUE, state |-> "Inactive", item |-> "Subtree"],
         callbacks |-> <<>>,
         screens |-> << <<>> >>,
         active_screen |-> 0,
         last_sizes |-> <<>>,
         screen_size |-> ScreenRows,
         cb_queue |-> <<>>,
         nsent |-> 0,
         executed |-> <<>>,
         input |-> <<>>,
         user_data |-> UnitData,
         held |-> <<>>,
         trace |-> <<>>])

\* what backend_init returns: Ok(backend) or Err(err)
InitOk == [ok |-> TRUE, err |-> ""]

InitErr(err) == [ok |-> FALSE, err |-> err]

InitResults == {InitOk, InitErr("io"), InitErr("tty")}

\* the terminal before backend_init
TerminalNew == [state |-> "uninit", finished |-> 0, err |-> ""]

\* backend_init(): the terminal it leaves
BackendInit(r) ==
    [state |-> IF r.ok THEN "ready" ELSE "failed", finished |-> 0, err |-> r.err]

\* Backend::finish
Finish(t) == [t EXCEPT !.state = "finished", !.finished = @ + 1]

\* the owner of no controller: before try_new, with the error try_new
\* returned, or after the drop
NoController(err) == [exists |-> FALSE, err |-> err]

\* Cursive::try_new(backend_init): Ok(the controller) or the error of
\* backend_init, and the terminal
TryNewOf(r) ==
    IF r.ok
    THEN [siv |-> TryNew, terminal |-> BackendInit(r)]
    ELSE [siv |-> NoController(r.err), terminal |-> BackendInit(r)]

\* drop that leaves the backend as it is
DropNoFinish(t) == t

\* impl Drop for Cursive: the terminal after the drop
Drop(t) == Finish(t)

\* a method of the controller starts with an empty log
Fresh(s) == [s EXCEPT !.trace = <<>>]

\* the views an application holds outside the tree, as their constructors
\* leave them, with the log and the result of the last call on one of them
WidgetsNew ==
    [enableable |-> EnableableNew(EditViewNew),
     radio |-> [state |-> RadioGroupNew.state, config |-> RadioGroupNew.config,
                buttons |-> <<>>],
     padded |-> PaddedNew(MarginsLrtb(0, 0, 0, 0), InnerNew),
     tracked |-> TrackedNew(InnerNew),
     size |-> Vec2Zero,
     trace |-> <<>>,
     result |-> Ignored]

----------------------------------------------------------------------------
(* The state after construction.                                           *)

Init ==
    /\ siv = TryNew
    /\ pc = "idle"
    /\ boring = TRUE
    /\ received = FALSE
    /\ sent = [p \in Producers |-> 0]
    /\ in_run = FALSE
    /\ widgets = WidgetsNew
    /\ terminal = BackendInit(InitOk)

----------------------------------------------------------------------------
(* Calls made by the application between two runs of the loop.             *)

\* callbacks the application registers
UserActs == {"quit", "select_menubar"}

\* events the application registers global callbacks for
UserTriggers == {Ev("Char_q"), Ev("WindowResize")}

AddGlobalCallback(e, act) ==
    /\ pc = "idle"
    /\ Len(siv.callbacks) < MaxCallbacks
    /\ siv' = AddGlobalCallbackOf(Fresh(siv), e, act)
    /\ UNCHANGED <<pc, boring, received, sent, in_run, widgets, terminal>>

AddLayer(kind) ==
    /\ pc = "idle"
    /\ Len(Screen(siv)) < MaxLayers
    /\ siv' = AddLayerOf(Fresh(siv), Layer(kind))
    /\ UNCHANGED <<pc, boring, received, sent, in_run, widgets, terminal>>

PopLayer ==
    /\ pc = "idle"
    /\ siv' = PopLayerOf(Fresh(siv))
    /\ UNCHANGED <<pc, boring, received, sent, in_run, widgets, terminal>>

SetAutohide(b) ==
    /\ pc = "idle"
    /\ siv' = SetAutohideMenu(Fresh(siv), b)
    /\ UNCHANGED <<pc, boring, received, sent, in_run, widgets, terminal>>

SelectMenubarCall ==
    /\ pc = "idle"
    /\ siv' = SelectMenubar(Fresh(siv))
    /\ UNCHANGED <<pc, boring, received, sent, in_run, widgets, terminal>>

SetFps(f) ==
    /\ pc = "idle"
    /\ siv' = SetFpsOf(Fresh(siv), f)
    /\ UNCHANGED <<pc, boring, received, sent, in_run, widgets, terminal>>

SetOnPreEventCall(e, act) ==
    /\ pc = "idle"
    /\ Len(siv.callbacks) < MaxCallbacks
    /\ siv' = SetOnPreEvent(Log(Fresh(siv), "set_on_pre_event", e, act), e, act)
    /\ UNCHANGED <<pc, boring, received, sent, in_run, widgets, terminal>>

\* what the closures of the inner callbacks of the application return: a
\* refusal, Ignored, Consumed without a callback, Consumed with a callback
InnerReturns(act) ==
    {<<"none", "">>, <<"ignored", "">>, <<"consumed", "">>, <<"with_cb", act>>}

SetOnPreEventInnerCall(e, ret) ==
    /\ pc = "idle"
    /\ Len(siv.callbacks) < MaxCallbacks
    /\ siv' = SetOnPreEventInner(Log(Fresh(siv), "set_on_pre_event_inner", e, ret[1]),
                                 e, ret[1], ret[2])
    /\ UNCHANGED <<pc, boring, received, sent, in_run, widgets, terminal>>

SetOnEventInnerCall(e, ret) ==
    /\ pc = "idle"
    /\ Len(siv.callbacks) < MaxCallbacks
    /\ siv' = SetOnEventInner(Log(Fresh(siv), "set_on_event_inner", e, ret[1]),
                              e, ret[1], ret[2])
    /\ UNCHANGED <<pc, boring, received, sent, in_run, widgets, terminal>>

ClearGlobalCallbacks(e) ==
    /\ pc = "idle"
    /\ siv' = ClearGlobalCallbacksOf(Fresh(siv), e)
    /\ UNCHANGED <<pc, boring, received, sent, in_run, widgets, terminal>>

ResetDefaultCallbacksCall ==
    /\ pc = "idle"
    /\ Len(siv.callbacks) + 3 <= MaxCallbacks
    /\ siv' = ResetDefaultCallbacks(Fresh(siv))
    /\ UNCHANGED <<pc, boring, received, sent, in_run, widgets, terminal>>

RECURSIVE TotalLayers(_)
\* the number of layers on all the screens
TotalLayers(screens) ==
    IF screens = <<>> THEN 0 ELSE Len(Head(screens)) + TotalLayers(Tail(screens))

\* views the application puts on the screens
ScreenViews == {NewView("TextView"), NewView("Button")}

\* positions the application gives to a layer
LayerPositions == {"absolute"}

AddLayerCall(view) ==
    /\ pc = "idle"
    /\ TotalLayers(siv.screens) < MaxStack
    /\ siv' = Log(AddLayerOf(Fresh(siv), view), "add_layer", NoEvent, "")
    /\ UNCHANGED <<pc, boring, received, sent, in_run, widgets, terminal>>

AddFullscreenLayerCall(view) ==
    /\ pc = "idle"
    /\ TotalLayers(siv.screens) < MaxStack
    /\ siv' = Log(AddFullscreenLayerOf(Fresh(siv), view), "add_fullscreen_layer", NoEvent, "")
    /\ UNCHANGED <<pc, boring, received, sent, in_run, widgets, terminal>>

ShowDebugConsoleCall ==
    /\ pc = "idle"
    /\ TotalLayers(siv.screens) < MaxStack
    /\ siv' = Log(ShowDebugConsole(Fresh(siv)), "show_debug_console", NoEvent, "")
    /\ UNCHANGED <<pc, boring, received, sent, in_run, widgets, terminal>>

ToggleDebugConsoleCall ==
    /\ pc = "idle"
    /\ TotalLayers(ToggleDebugConsole(siv).screens) <= MaxStack
    /\ siv' = Log(ToggleDebugConsole(Fresh(siv)), "toggle_debug_console", NoEvent, "")
    /\ UNCHANGED <<pc, boring, received, sent, in_run, widgets, terminal>>

PopLayerCall ==
    /\ pc = "idle"
    /\ siv' = Log(PopLayerOf(Fresh(siv)), "pop_layer", NoEvent, PopLayerResult(siv))
    /\ UNCHANGED <<pc, boring, received, sent, in_run, widgets, terminal>>

RepositionLayerCall(i, position) ==
    /\ pc = "idle"
    /\ i < Len(Screen(siv))
    /\ siv' = Log(RepositionLayerOf(Fresh(siv), i, position), "reposition_layer", NoEvent, "")
    /\ UNCHANGED <<pc, boring, received, sent, in_run, widgets, terminal>>

\* names and types of the views the application looks for
FindNames == {"a", "b"}

FindKinds == {"TextView", "EditView"}

\* the named views the application puts on the screen
NamedViews == {WithId(NewView(kind), name) : kind \in FindKinds, name \in FindNames}

\* the lookups the application makes: of its own views by their names, and
\* of the view of the debug console as a DebugView and as a Dialog
Lookups ==
    (FindNames \X FindKinds) \cup ({DEBUG_VIEW_NAME} \X {"DebugView", "Dialog"})

CallOnNameCall(name, type) ==
    /\ pc = "idle"
    /\ siv' = CallOnNameOf(
                  Log(Log(Fresh(siv), "call_on_name", NoEvent, name), "type", NoEvent, type),
                  name, type, "set_content")
    /\ UNCHANGED <<pc, boring, received, sent, in_run, widgets, terminal>>

FindNameCall(id, type) ==
    /\ pc = "idle"
    /\ siv' = FindNameOf(
                  Log(Log(Fresh(siv), "find_name", NoEvent, id), "type", NoEvent, type),
                  id, type)
    /\ UNCHANGED <<pc, boring, received, sent, in_run, widgets, terminal>>

FocusNameCall(name) ==
    /\ pc = "idle"
    /\ siv' = FocusNameOf(Log(Fresh(siv), "focus_name", NoEvent, name), name)
    /\ UNCHANGED <<pc, boring, received, sent, in_run, widgets, terminal>>

\* a method of the Enableable the application holds
EnableableCall(w, op, e, act) ==
    /\ widgets' = [widgets EXCEPT !.enableable = w,
                                  !.trace = <<Call(op, e, act)>>,
                                  !.result = Ignored]
    /\ UNCHANGED <<siv, pc, boring, received, sent, in_run, terminal>>

DisableCall == EnableableCall(Disable(widgets.enableable), "disable", NoEvent, "")

EnableCall == EnableableCall(Enable(widgets.enableable), "enable", NoEvent, "")

SetEnabledCall(enabled) ==
    EnableableCall(SetEnabled(widgets.enableable, enabled), "set_enabled", NoEvent,
                   IF enabled THEN "true" ELSE "false")

EnableableOnEvent(e) ==
    LET r == WrapOnEvent(widgets.enableable, e)
    IN /\ r.view.view.len <= MaxContent
       /\ widgets' = [widgets EXCEPT !.enableable = r.view,
                                     !.trace = <<Call("wrap_on_event", e, "")>> \o r.calls,
                                     !.result = r.result]
       /\ UNCHANGED <<siv, pc, boring, received, sent, in_run, terminal>>

\* a method of the radio group or of one of its buttons: it makes no call on
\* the controller
RadioCall(radio, trace, result) ==
    /\ widgets' = [widgets EXCEPT !.radio = radio, !.trace = trace, !.result = result]
    /\ siv' = Fresh(siv)
    /\ UNCHANGED <<pc, boring, received, sent, in_run, terminal>>

\* the position of a button the application holds
ButtonIndex == 1..Len(widgets.radio.buttons)

\* the configurations an application gives a group: the default one and
\* one with longer marks and brackets
RadioConfigs ==
    {DEFAULT_RADIO_BUTTON_CONFIG,
     [check |-> "XX", uncheck |-> "", left_bracket |-> "[[", right_bracket |-> "]",
      post_label_space |-> "  "]}

\* the application makes its group by with_config, before it asks the group
\* for a button: the buttons it holds are those of one group
WithConfigCall(config) ==
    LET group == WithConfig(config)
    IN /\ widgets.radio.buttons = <<>>
       /\ RadioCall([state |-> group.state, config |-> group.config, buttons |-> <<>>],
                    <<Call("with_config", NoEvent, config.left_bracket)>>, Ignored)

\* RadioGroup::button with the text of the value as the label (button_str)
ButtonCall(value) ==
    /\ Len(widgets.radio.buttons) < MaxButtons
    /\ LET r == Button([state |-> widgets.radio.state, config |-> widgets.radio.config],
                        value, value)
       IN RadioCall([state |-> r.group.state, config |-> r.group.config,
                     buttons |-> Append(widgets.radio.buttons, r.button)],
                    <<Call("button", NoEvent, value)>>, Ignored)

SetOnChangeCall ==
    RadioCall([widgets.radio EXCEPT !.state = SetOnChange(@, "on_change")],
              <<Call("set_on_change", NoEvent, "on_change")>>, Ignored)

SelectCall(i) ==
    LET b == widgets.radio.buttons[i]
        r == Select(widgets.radio.state, b)
    IN RadioCall([widgets.radio EXCEPT !.state = r.state],
                 <<Call("select", NoEvent, ToString(b.id))>>, r.result)

SelectedCall(i) ==
    LET b == widgets.radio.buttons[i]
    IN RadioCall([widgets.radio EXCEPT !.state = Selected(@, b)],
                 <<Call("selected", NoEvent, ToString(b.id))>>, Ignored)

WithSelectedCall(i, selection) ==
    LET b == widgets.radio.buttons[i]
    IN RadioCall([widgets.radio EXCEPT !.state = WithSelected(@, b, selection)],
                 <<Call("with_selected", NoEvent, ToString(b.id)),
                   Call("arg", NoEvent, IF selection THEN "true" ELSE "false")>>,
                 Ignored)

RadioDisableCall(i) ==
    LET b == widgets.radio.buttons[i]
    IN RadioCall([widgets.radio EXCEPT !.buttons[i] = Disable(@)],
                 <<Call("button.disable", NoEvent, ToString(b.id))>>, Ignored)

RadioEnableCall(i) ==
    LET b == widgets.radio.buttons[i]
    IN RadioCall([widgets.radio EXCEPT !.buttons[i] = Enable(@)],
                 <<Call("button.enable", NoEvent, ToString(b.id))>>, Ignored)

RadioTakeFocusCall(i) ==
    LET b == widgets.radio.buttons[i]
    IN RadioCall(widgets.radio,
                 <<Call("take_focus", NoEvent, ToString(b.id)),
                   Call("return", NoEvent, IF RadioTakeFocus(b) THEN "true" ELSE "false")>>,
                 Ignored)

RadioOnEventCall(i, e) ==
    LET b == widgets.radio.buttons[i]
        r == RadioOnEvent(widgets.radio.state, b, e)
    IN RadioCall([widgets.radio EXCEPT !.state = r.state],
                 <<Call("button.on_event", e, ToString(b.id))>>, r.result)

\* the events the loop polls while a button holds the focus
DispatchedEvents == {Ev("Enter"), Ev("Char_q")}

\* an event of the loop, given to the button that holds the focus
RadioDispatch(i, e) ==
    LET b == widgets.radio.buttons[i]
        r == OnEventRadio(Fresh(siv), widgets.radio.state, b, e)
    IN /\ pc = "idle"
       /\ siv' = r.siv
       /\ widgets' = [widgets EXCEPT !.radio.state = r.state,
                                     !.trace = <<Call("dispatch", e, ToString(b.id))>>,
                                     !.result = Ignored]
       /\ UNCHANGED <<pc, boring, received, sent, in_run, terminal>>

\* a method of the PaddedView the application holds
PaddedCall(p, trace, size, result) ==
    /\ widgets' = [widgets EXCEPT !.padded = p, !.trace = trace,
                                  !.size = size, !.result = result]
    /\ UNCHANGED <<siv, pc, boring, received, sent, in_run, terminal>>

SetMarginsCall(margins) ==
    PaddedCall(SetMargins(widgets.padded, margins),
               <<Call("set_margins", NoEvent, VecStr(Combined(margins)))>>,
               Vec2Zero, Ignored)

PaddedRequiredSize(req) ==
    LET r == WrapRequiredSize(widgets.padded, req)
    IN PaddedCall(widgets.padded,
                  <<Call("required_size", NoEvent, VecStr(req))>> \o r.calls,
                  r.size, Ignored)

PaddedLayout(size) ==
    LET r == WrapLayout(widgets.padded, size)
    IN PaddedCall(r.view, <<Call("layout", NoEvent, VecStr(size))>> \o r.calls,
                  Vec2Zero, Ignored)

\* the events a PaddedView is given: a key, and the mouse on every cell of
\* the largest size
PaddedEvents ==
    {Ev("Enter")} \cup {MouseEvAt("Release", position, Vec2Zero) : position \in Sizes}

PaddedOnEvent(e) ==
    LET r == PaddedWrapOnEvent(widgets.padded, e)
    IN PaddedCall(r.view, <<Call("on_event", e, "")>> \o r.calls, Vec2Zero, r.result)

\* a method of the Tracked view the application holds
TrackedCall(t, trace, size, result) ==
    /\ widgets' = [widgets EXCEPT !.tracked = t, !.trace = trace,
                                  !.size = size, !.result = result]
    /\ UNCHANGED <<siv, pc, boring, received, sent, in_run, terminal>>

TrackedDraw(offset) ==
    LET r == TrackedWrapDraw(widgets.tracked, PrinterAt(offset))
    IN TrackedCall(r.view, <<Call("draw", NoEvent, VecStr(offset))>> \o r.calls,
                   Vec2Zero, Ignored)

TrackedRequiredSize(req) ==
    LET r == TrackedWrapRequiredSize(widgets.tracked, req)
    IN TrackedCall(widgets.tracked,
                   <<Call("required_size", NoEvent, VecStr(req))>> \o r.calls,
                   r.size, Ignored)

TrackedLayout(size) ==
    LET r == TrackedWrapLayout(widgets.tracked, size)
    IN TrackedCall(r.view, <<Call("layout", NoEvent, VecStr(size))>> \o r.calls,
                   Vec2Zero, Ignored)

TrackedOnEvent(e) ==
    LET r == TrackedWrapOnEvent(widgets.tracked, e)
    IN TrackedCall(r.view, <<Call("on_event", e, "")>> \o r.calls, Vec2Zero, r.result)

\* the calls on the user data; `held` remembers the type of the data the
\* application set and has not taken since
SetUserDataCall(user_data) ==
    /\ pc = "idle"
    /\ siv' = [Log(SetUserData(Fresh(siv), user_data),
                   "set_user_data", NoEvent, OptionStr(<<user_data>>))
                 EXCEPT !.held = <<user_data.type>>]
    /\ UNCHANGED <<pc, boring, received, sent, in_run, widgets, terminal>>

UserDataCall(type) ==
    /\ pc = "idle"
    /\ siv' = Log(Log(Fresh(siv), "user_data", NoEvent, type),
                  "return", NoEvent, OptionStr(UserData(siv, type)))
    /\ UNCHANGED <<pc, boring, received, sent, in_run, widgets, terminal>>

TakeUserDataCall(type) ==
    LET r == TakeUserData(Log(Fresh(siv), "take_user_data", NoEvent, type), type)
    IN /\ pc = "idle"
       /\ siv' = [Log(r.siv, "return", NoEvent, OptionStr(r.result))
                    EXCEPT !.held = IF r.result # <<>> THEN <<>> ELSE @]
       /\ UNCHANGED <<pc, boring, received, sent, in_run, widgets, terminal>>

WithUserDataCall(type, value) ==
    LET r == WithUserData(Log(Fresh(siv), "with_user_data", NoEvent, type), type, value)
    IN /\ pc = "idle"
       /\ siv' = Log(r.siv, "return", NoEvent, OptionStr(r.result))
       /\ UNCHANGED <<pc, boring, received, sent, in_run, widgets, terminal>>

AddScreen ==
    /\ pc = "idle"
    /\ Len(siv.screens) < MaxScreens
    /\ siv' = AddScreenOf(Fresh(siv))
    /\ UNCHANGED <<pc, boring, received, sent, in_run, widgets, terminal>>

AddActiveScreen ==
    /\ pc = "idle"
    /\ Len(siv.screens) < MaxScreens
    /\ siv' = AddActiveScreenOf(Fresh(siv))
    /\ UNCHANGED <<pc, boring, received, sent, in_run, widgets, terminal>>

SetScreen(screen_id) ==
    /\ pc = "idle"
    /\ siv' = SetScreenOf(Fresh(siv), screen_id)
    /\ UNCHANGED <<pc, boring, received, sent, in_run, widgets, terminal>>

\* a direct call of on_event
OnEventCall(e) ==
    /\ pc = "idle"
    /\ Len(Screen(OnEvent(siv, e))) <= MaxLayers + 1
    /\ siv' = OnEvent(Fresh(siv), e)
    /\ UNCHANGED <<pc, boring, received, sent, in_run, widgets, terminal>>

\* a direct call of post_events
PostEventsCall(b) ==
    /\ pc = "idle"
    /\ b \/ siv.boring_frame_count < MaxBoring
    /\ siv' = PostEventsOf(Fresh(siv), b)
    /\ UNCHANGED <<pc, boring, received, sent, in_run, widgets, terminal>>

----------------------------------------------------------------------------
(* The environment: the terminal and the producer threads.                 *)

\* events the terminal delivers while the loop runs
LoopEvents == {Ev("Char_q"), Ev("CtrlC")}

\* events the terminal delivers to an application with views and a menubar
UiEvents == {Ev("Char_q"), Ev("Esc"), MouseEv("Press", 0)}

\* what the application sets up before it runs the loop
LoopKinds == {"EditView"}

LoopTriggers == {Ev("Char_q")}

LoopActs == {"quit"}

\* callbacks the producer threads send
ProducerActs == {"noop", "quit", "send"}

InputArrives(e) ==
    /\ Len(siv.input) < MaxInput
    /\ siv' = [siv EXCEPT !.input = Append(@, e)]
    /\ UNCHANGED <<pc, boring, received, sent, in_run, widgets, terminal>>

\* a producer thread calls cb_sink.send
ProducerSend(p, act) ==
    /\ siv.nsent < MaxSent
    /\ siv' = ChannelSend(siv, Boxed(siv, act))
    /\ sent' = [sent EXCEPT ![p] = @ + 1]
    /\ UNCHANGED <<pc, boring, received, in_run, widgets, terminal>>

\* the positions of the owner thread at which it holds a controller
Alive == {"idle", "loop", "poll", "drain", "post", "sleep"}

\* let siv = Cursive::try_new(backend_init)
Construct(r) ==
    /\ pc = "start"
    /\ siv' = TryNewOf(r).siv
    /\ terminal' = TryNewOf(r).terminal
    /\ pc' = IF r.ok THEN "idle" ELSE "failed"
    /\ UNCHANGED <<boring, received, sent, in_run, widgets>>

\* the controller goes out of scope
DropScope ==
    /\ pc = "idle"
    /\ terminal' = Drop(terminal)
    /\ siv' = NoController("")
    /\ pc' = "dropped"
    /\ UNCHANGED <<boring, received, sent, in_run, widgets>>

\* a panic inside run() unwinds the stack of the owner thread
Unwind ==
    /\ pc \in Alive \ {"idle"}
    /\ terminal' = Drop(terminal)
    /\ siv' = NoController("")
    /\ pc' = "dropped"
    /\ in_run' = FALSE
    /\ UNCHANGED <<boring, received, sent, widgets>>

\* quit() called by the application between two runs
QuitCall ==
    /\ pc = "idle"
    /\ siv' = Log(Quit(Fresh(siv)), "quit", NoEvent, "")
    /\ UNCHANGED <<pc, boring, received, sent, in_run, widgets, terminal>>

\* the terminal has input while the backend drives it
TerminalInput(e) ==
    /\ pc \in Alive
    /\ InputArrives(e)

----------------------------------------------------------------------------
(* The event loop: run, step, process_events, post_events.                 *)

\* run() entering the loop without setting running
RunKeepsRunning ==
    /\ pc = "idle"
    /\ siv' = Refresh(Fresh(siv))
    /\ pc' = "loop"
    /\ in_run' = TRUE
    /\ UNCHANGED <<boring, received, sent, widgets, terminal>>

\* run(): running = true, refresh(), then the loop
Run ==
    /\ pc = "idle"
    /\ siv' = Refresh([Fresh(siv) EXCEPT !.running = TRUE])
    /\ pc' = "loop"
    /\ in_run' = TRUE
    /\ UNCHANGED <<boring, received, sent, widgets, terminal>>

\* while self.running { self.step() }: step() enters process_events
LoopEnter ==
    /\ pc = "loop"
    /\ siv.running
    /\ pc' = "poll"
    /\ boring' = TRUE
    /\ UNCHANGED <<siv, received, sent, in_run, widgets, terminal>>

\* the loop ends and run() returns
LoopExit ==
    /\ pc = "loop"
    /\ ~siv.running
    /\ pc' = "idle"
    /\ in_run' = FALSE
    /\ UNCHANGED <<siv, boring, received, sent, widgets, terminal>>

\* a call of step() by the application: step() enters process_events
StepCall ==
    /\ pc = "idle"
    /\ pc' = "poll"
    /\ boring' = TRUE
    /\ UNCHANGED <<siv, received, sent, in_run, widgets, terminal>>

\* the polling loop without the test of running
PollSomeNoTest ==
    /\ pc = "poll"
    /\ siv.input # <<>>
    /\ Len(Screen(OnEvent(siv, Head(siv.input)))) <= MaxLayers + 1
    /\ LET polled == PollEvent(Fresh(siv))
       IN siv' = OnEvent(polled.siv, polled.event)
    /\ boring' = FALSE
    /\ pc' = "poll"
    /\ UNCHANGED <<received, sent, in_run, widgets, terminal>>

\* while let Some(event) = poll_event(): dispatch, then test running
PollSome ==
    /\ pc = "poll"
    /\ siv.input # <<>>
    /\ Len(Screen(OnEvent(siv, Head(siv.input)))) <= MaxLayers + 1
    /\ LET polled == PollEvent(Fresh(siv))
           after == OnEvent(polled.siv, polled.event)
       IN /\ siv' = after
          /\ boring' = FALSE
          /\ IF ~after.running
             THEN pc' = "post" /\ received' = TRUE
             ELSE pc' = "poll" /\ received' = received
    /\ UNCHANGED <<sent, in_run, widgets, terminal>>

\* the polling loop left while the backend still holds input
PollNoneLeavesInput ==
    /\ pc = "poll"
    /\ pc' = "drain"
    /\ UNCHANGED <<siv, boring, received, sent, in_run, widgets, terminal>>

\* poll_event() returns None: go on to the callbacks
PollNone ==
    /\ pc = "poll"
    /\ siv.input = <<>>
    /\ pc' = "drain"
    /\ UNCHANGED <<siv, boring, received, sent, in_run, widgets, terminal>>

\* the draining loop dropping the callbacks still queued when running is false
RecvSomeDropsQueued ==
    /\ pc = "drain"
    /\ siv.cb_queue # <<>>
    /\ LET got == TryRecv(Fresh(siv))
           ran == RunCallback(got.siv, got.cb.act)
           after == [ran EXCEPT !.executed = Append(@, got.cb.id)]
       IN /\ boring' = FALSE
          /\ IF ~after.running
             THEN /\ siv' = [after EXCEPT !.nsent = @ - Len(after.cb_queue), !.cb_queue = <<>>]
                  /\ pc' = "post" /\ received' = TRUE
             ELSE /\ siv' = after
                  /\ pc' = "drain" /\ received' = received
    /\ UNCHANGED <<sent, in_run, widgets, terminal>>

\* the draining loop ending the pass after one callback
RecvSomeOnce ==
    /\ pc = "drain"
    /\ siv.cb_queue # <<>>
    /\ LET got == TryRecv(Fresh(siv))
           ran == RunCallback(got.siv, got.cb.act)
           after == [ran EXCEPT !.executed = Append(@, got.cb.id)]
       IN /\ siv' = after
          /\ boring' = FALSE
          /\ pc' = "post"
          /\ received' = TRUE
    /\ UNCHANGED <<sent, in_run, widgets, terminal>>

\* while let Ok(cb) = try_recv(): run it, then test running
RecvSome ==
    /\ pc = "drain"
    /\ siv.cb_queue # <<>>
    /\ LET got == TryRecv(Fresh(siv))
           ran == RunCallback(got.siv, got.cb.act)
           after == [ran EXCEPT !.executed = Append(@, got.cb.id)]
       IN /\ siv' = after
          /\ boring' = FALSE
          /\ IF ~after.running
             THEN pc' = "post" /\ received' = TRUE
             ELSE pc' = "drain" /\ received' = received
    /\ UNCHANGED <<sent, in_run, widgets, terminal>>

\* process_events returning boring instead of !boring
RecvEmptyReturnsBoring ==
    /\ pc = "drain"
    /\ siv.cb_queue = <<>>
    /\ pc' = "post"
    /\ received' = boring
    /\ UNCHANGED <<siv, boring, sent, in_run, widgets, terminal>>

\* try_recv() fails: process_events returns !boring
RecvEmpty ==
    /\ pc = "drain"
    /\ siv.cb_queue = <<>>
    /\ pc' = "post"
    /\ received' = ~boring
    /\ UNCHANGED <<siv, boring, sent, in_run, widgets, terminal>>

\* step() returning without post_events once running is false
PostEventsSkippedAfterQuit ==
    /\ pc = "post"
    /\ received \/ siv.boring_frame_count < MaxIdle
    /\ siv' = IF siv.running THEN PostEventsRedraw(Fresh(siv), received) ELSE Fresh(siv)
    /\ pc' = IF ~received THEN "sleep" ELSE IF in_run THEN "loop" ELSE "idle"
    /\ UNCHANGED <<boring, received, sent, in_run, widgets, terminal>>

\* step(): post_events(received_something) up to its redraw; when something
\* was received post_events returns, back to the caller of step(); when
\* nothing was, the thread sleeps while the producers and the terminal go on
PostEvents ==
    /\ pc = "post"
    /\ received \/ siv.boring_frame_count < MaxIdle
    /\ siv' = PostEventsRedraw(Fresh(siv), received)
    /\ pc' = IF ~received THEN "sleep" ELSE IF in_run THEN "loop" ELSE "idle"
    /\ UNCHANGED <<boring, received, sent, in_run, widgets, terminal>>

\* the sleep of post_events is over: the idle frame is counted, post_events
\* returns, back to the caller of step()
PostEventsWakes ==
    /\ pc = "sleep"
    /\ siv' = SleepAndCount(siv)
    /\ pc' = IF in_run THEN "loop" ELSE "idle"
    /\ UNCHANGED <<boring, received, sent, in_run, widgets, terminal>>

----------------------------------------------------------------------------
(* The event loop of a new controller with its producers and its terminal. *)

Next ==
    \/ Run
    \/ StepCall
    \/ LoopEnter
    \/ LoopExit
    \/ PollSome
    \/ PollNone
    \/ RecvSome
    \/ RecvEmpty
    \/ PostEvents
    \/ PostEventsWakes
    \/ \E e \in LoopEvents : InputArrives(e)
    \/ \E p \in Producers, act \in ProducerActs : ProducerSend(p, act)

Spec == Init /\ [][Next]_vars

(* The event loop of an application with views, global callbacks and a     *)
(* visible menubar, without producers.                                     *)

NextLoop ==
    \/ \E e \in LoopTriggers, act \in LoopActs : AddGlobalCallback(e, act)
    \/ \E kind \in LoopKinds : AddLayer(kind)
    \/ \E b \in BOOLEAN : SetAutohide(b)
    \/ Run
    \/ StepCall
    \/ LoopEnter
    \/ LoopExit
    \/ PollSome
    \/ PollNone
    \/ RecvEmpty
    \/ PostEvents
    \/ PostEventsWakes
    \/ \E e \in UiEvents : InputArrives(e)

SpecLoop == Init /\ [][NextLoop]_vars

(* Direct calls of on_event on a controller the application sets up.       *)

\* the views the application puts on the screen: one that ignores every event
\* and one that consumes an event with a callback
DispatchKinds == {"TextView", "Button"}

NextDispatch ==
    \/ \E e \in UserTriggers, act \in UserActs : AddGlobalCallback(e, act)
    \/ \E kind \in DispatchKinds : AddLayer(kind)
    \/ PopLayer
    \/ \E b \in BOOLEAN : SetAutohide(b)
    \/ SelectMenubarCall
    \/ \E e \in Events : OnEventCall(e)

SpecDispatch == Init /\ [][NextDispatch]_vars

(* Global callbacks: pre-event and post-event callbacks the application    *)
(* registers and clears, and direct calls of on_event.                     *)

CallbackEvents == {Ev("Char_q"), Ev("CtrlC"), Ev("Exit"), Ev("WindowResize"), Ev("Esc")}

NextCallbacks ==
    \/ AddGlobalCallback(Ev("Char_q"), "quit")
    \/ SetOnPreEventCall(Ev("Char_q"), "select_menubar")
    \/ \E e \in CallbackEvents \ {Ev("Esc")} : ClearGlobalCallbacks(e)
    \/ ResetDefaultCallbacksCall
    \/ AddLayer("EditView")
    \/ PopLayer
    \/ SelectMenubarCall
    \/ \E e \in CallbackEvents : OnEventCall(e)

SpecCallbacks == Init /\ [][NextCallbacks]_vars

(* Inner callbacks: an application that registers callbacks on the         *)
(* controller and callbacks that answer with an event result or decline.   *)

InnerEvents == {Ev("Char_q"), Ev("CtrlC"), Ev("Esc")}

NextInner ==
    \/ AddGlobalCallback(Ev("Char_q"), "quit")
    \/ SetOnPreEventCall(Ev("Char_q"), "select_menubar")
    \/ \E ret \in InnerReturns("noop") : SetOnPreEventInnerCall(Ev("Char_q"), ret)
    \/ \E ret \in InnerReturns("clear") : SetOnEventInnerCall(Ev("Char_q"), ret)
    \/ ClearGlobalCallbacks(Ev("CtrlC"))
    \/ AddLayer("EditView")
    \/ PopLayer
    \/ SelectMenubarCall
    \/ \E e \in InnerEvents : OnEventCall(e)

SpecInner == Init /\ [][NextInner]_vars

(* Screens and their layers.                                               *)

NextScreens ==
    \/ \E view \in ScreenViews : AddLayerCall(view)
    \/ \E view \in ScreenViews : AddFullscreenLayerCall(view)
    \/ PopLayerCall
    \/ \E i \in 0..(MaxStack - 1), position \in LayerPositions : RepositionLayerCall(i, position)
    \/ AddScreen
    \/ AddActiveScreen
    \/ \E screen_id \in 0..MaxScreens : SetScreen(screen_id)

SpecScreens == Init /\ [][NextScreens]_vars

(* Named views: lookups and focus by name.                                 *)

NextFind ==
    \/ \E view \in NamedViews : AddLayerCall(view)
    \/ PopLayerCall
    \/ ShowDebugConsoleCall
    \/ ToggleDebugConsoleCall
    \/ \E l \in Lookups : CallOnNameCall(l[1], l[2])
    \/ \E l \in Lookups : FindNameCall(l[1], l[2])
    \/ \E name \in FindNames \cup {DEBUG_VIEW_NAME} : FocusNameCall(name)

SpecFind == Init /\ [][NextFind]_vars

(* An Enableable the application enables, disables and gives events to.    *)

NextEnableable ==
    \/ DisableCall
    \/ EnableCall
    \/ \E enabled \in BOOLEAN : SetEnabledCall(enabled)
    \/ \E e \in Events : EnableableOnEvent(e)

SpecEnableable == Init /\ [][NextEnableable]_vars

(* A radio group whose buttons the application creates, selects, disables  *)
(* and gives events to.                                                    *)

NextRadio ==
    \/ \E config \in RadioConfigs : WithConfigCall(config)
    \/ \E value \in RadioValues : ButtonCall(value)
    \/ SetOnChangeCall
    \/ \E i \in ButtonIndex : SelectCall(i)
    \/ \E i \in ButtonIndex : SelectedCall(i)
    \/ \E i \in ButtonIndex, selection \in BOOLEAN : WithSelectedCall(i, selection)
    \/ \E i \in ButtonIndex : RadioDisableCall(i)
    \/ \E i \in ButtonIndex : RadioEnableCall(i)
    \/ \E i \in ButtonIndex : RadioTakeFocusCall(i)
    \/ \E i \in ButtonIndex, e \in RadioEvents : RadioOnEventCall(i, e)
    \/ \E i \in ButtonIndex, e \in DispatchedEvents : RadioDispatch(i, e)

SpecRadio == Init /\ [][NextRadio]_vars

(* A PaddedView whose margins the application sets and that is measured,   *)
(* laid out and given events.                                              *)

NextPadded ==
    \/ \E margins \in AllMargins : SetMarginsCall(margins)
    \/ \E req \in Sizes : PaddedRequiredSize(req)
    \/ \E size \in Sizes : PaddedLayout(size)
    \/ \E e \in PaddedEvents : PaddedOnEvent(e)

SpecPadded == Init /\ [][NextPadded]_vars

(* A Tracked view that is drawn at changing offsets, measured, laid out    *)
(* and given events.                                                       *)

NextTracked ==
    \/ \E offset \in Sizes : TrackedDraw(offset)
    \/ \E req \in Sizes : TrackedRequiredSize(req)
    \/ \E size \in Sizes : TrackedLayout(size)
    \/ \E e \in Events : TrackedOnEvent(e)

SpecTracked == Init /\ [][NextTracked]_vars

(* The user data of the controller, set, read, changed and taken.          *)

NextUserData ==
    \/ \E user_data \in UserValues : SetUserDataCall(user_data)
    \/ \E type \in DataTypes : UserDataCall(type)
    \/ \E type \in DataTypes : TakeUserDataCall(type)
    \/ \E type \in DataTypes \ {"unit"}, value \in 1..MaxValue : WithUserDataCall(type, value)

SpecUserData == Init /\ [][NextUserData]_vars

(* The life of a controller: try_new, the loop, and the drop at the end of *)
(* its scope or while a panic unwinds.                                     *)

InitLifecycle ==
    /\ siv = NoController("")
    /\ pc = "start"
    /\ boring = TRUE
    /\ received = FALSE
    /\ sent = [p \in Producers |-> 0]
    /\ in_run = FALSE
    /\ widgets = WidgetsNew
    /\ terminal = TerminalNew

NextLifecycle ==
    \/ \E r \in InitResults : Construct(r)
    \/ Run
    \/ LoopEnter
    \/ LoopExit
    \/ PollSome
    \/ PollNone
    \/ RecvEmpty
    \/ PostEvents
    \/ PostEventsWakes
    \/ \E e \in LoopEvents : TerminalInput(e)
    \/ QuitCall
    \/ DropScope
    \/ Unwind

SpecLifecycle == InitLifecycle /\ [][NextLifecycle]_vars

(* Frames: refresh() called by the application as it changes the layers,   *)
(* the screens, the menubar and the size of the terminal.                  *)

\* the view the application puts on its screens
FrameKinds == {"TextView"}

\* the rows the terminal can have: none, or as many as the bound allows
TerminalRows == {0, MaxRows}

\* the screens of the application
FrameScreens == {0, 1}

\* the terminal is resized: the backend reports the new size
Resize(rows) ==
    /\ pc = "idle"
    /\ siv' = [Fresh(siv) EXCEPT !.screen_size = rows]
    /\ UNCHANGED <<pc, boring, received, sent, in_run, widgets, terminal>>

AddFullscreenLayer(kind) ==
    /\ pc = "idle"
    /\ Len(Screen(siv)) < MaxLayers
    /\ siv' = AddFullscreenLayerOf(Fresh(siv), Layer(kind))
    /\ UNCHANGED <<pc, boring, received, sent, in_run, widgets, terminal>>

\* a direct call of refresh
RefreshCall ==
    /\ pc = "idle"
    /\ siv' = Refresh(Fresh(siv))
    /\ UNCHANGED <<pc, boring, received, sent, in_run, widgets, terminal>>

\* add_screen, by an application that has as many screens as FrameScreens
AddFrameScreen ==
    /\ Len(siv.screens) < Cardinality(FrameScreens)
    /\ AddScreen

NextDraw ==
    \/ \E kind \in FrameKinds : AddLayer(kind)
    \/ \E kind \in FrameKinds : AddFullscreenLayer(kind)
    \/ PopLayer
    \/ \E b \in BOOLEAN : SetAutohide(b)
    \/ AddFrameScreen
    \/ \E screen_id \in FrameScreens : SetScreen(screen_id)
    \/ \E rows \in TerminalRows : Resize(rows)
    \/ RefreshCall

SpecDraw == Init /\ [][NextDraw]_vars

(* Global callbacks set and cleared for one event, and the events          *)
(* dispatched to a controller without layers.                              *)

\* events the application sets callbacks for
GlobalEvents == {Ev("Char_q"), Ev("CtrlC")}

\* what the callbacks it sets do
GlobalActs == {"noop", "clear"}

\* the callbacks of the root tied to the event, in registration order
Tied(s, e) == SelectSeq(s.callbacks, LAMBDA c : c.trigger = e)

SetGlobalCallbackCall(e, act) ==
    /\ pc = "idle"
    /\ Len(ClearGlobalCallbacksOf(siv, e).callbacks) < MaxCallbacks
    /\ siv' = SetGlobalCallbackOf(
                  Log(Log(Fresh(siv), "set_global_callback", e, act),
                      "tied", e, ToString(Len(Tied(siv, e)))),
                  e, act)
    /\ UNCHANGED <<pc, boring, received, sent, in_run, widgets, terminal>>

ClearGlobalCallbacksCall(e) ==
    /\ pc = "idle"
    /\ siv' = ClearGlobalCallbacksOf(
                  Log(Log(Fresh(siv), "clear_global_callbacks", e, ""),
                      "tied", e, ToString(Len(Tied(siv, e)))),
                  e)
    /\ UNCHANGED <<pc, boring, received, sent, in_run, widgets, terminal>>

NextGlobal ==
    \/ \E e \in GlobalEvents, act \in GlobalActs : SetGlobalCallbackCall(e, act)
    \/ \E e \in GlobalEvents, act \in GlobalActs : AddGlobalCallback(e, act)
    \/ \E e \in GlobalEvents : SetOnPreEventCall(e, "noop")
    \/ \E e \in GlobalEvents : ClearGlobalCallbacksCall(e)
    \/ \E e \in GlobalEvents : OnEventCall(e)

SpecGlobal == Init /\ [][NextGlobal]_vars

(* The row of the menubar: layout, draw and mouse events of a controller   *)
(* whose autohide setting and terminal size change.                        *)

NextOffset ==
    \/ \E b \in BOOLEAN : SetAutohide(b)
    \/ \E rows \in TerminalRows : Resize(rows)
    \/ \E kind \in FrameKinds : AddFullscreenLayer(kind)
    \/ \E kind \in FrameKinds : AddLayer(kind)
    \/ RefreshCall
    \/ \E e \in MouseEvents : OnEventCall(e)

SpecOffset == Init /\ [][NextOffset]_vars

(* One pass of process_events after another, on a terminal whose input     *)
(* arrives between the polls of a pass, with a producer thread.  The owner  *)
(* thread is never blocked inside a pass: poll_event and try_recv return    *)
(* at once, so a pass that can take a step takes it.                        *)

\* input that is pending before the polling loop of a pass starts or after
\* it has ended
InputOutsidePolling(e) ==
    /\ pc # "poll"
    /\ InputArrives(e)

\* the steps of the owner thread inside process_events
PassStep ==
    \/ PollSome
    \/ PollNone
    \/ RecvSome
    \/ RecvEmpty

\* what the producer thread of a pass sends: a callback that sends another
\* one, and a callback that quits
PassActs == {"send", "quit"}

NextPass ==
    \/ StepCall
    \/ PassStep
    \/ PostEvents
    \/ PostEventsWakes
    \/ \E e \in LoopEvents : InputOutsidePolling(e)
    \/ \E act \in PassActs : ProducerSend("p1", act)

SpecPass == Init /\ [][NextPass]_vars /\ WF_vars(PassStep)

(* The idle-frame counter: set_fps, direct calls of post_events and of     *)
(* refresh.                                                                 *)

NextIdle ==
    \/ \E f \in 0..MaxFps : SetFps(f)
    \/ \E b \in BOOLEAN : PostEventsCall(b)
    \/ RefreshCall

SpecIdle == Init /\ [][NextIdle]_vars

(* The frame-rate policy: set_fps and direct calls of post_events.         *)

NextFps ==
    \/ \E f \in 0..MaxFps : SetFps(f)
    \/ \E b \in BOOLEAN : PostEventsCall(b)

SpecFps == Init /\ [][NextFps]_vars

----------------------------------------------------------------------------
(* Reading the log of the last method call.                                *)

\* the positions of the log with the given call
Positions(trace, op) == {i \in 1..Len(trace) : trace[i].op = op}

\* the last method call was on_event(e)
Dispatched(e) == siv.trace # <<>> /\ siv.trace[1] = Call("on_event", e, "")

\* the last method call was post_events(b)
PostCalled(b) ==
    siv.trace # <<>> /\ siv.trace[1] = Call("post_events", NoEvent, IF b THEN "true" ELSE "false")

\* the callbacks the last method call ran, in order
RECURSIVE CallbacksRun(_)
CallbacksRun(trace) ==
    IF trace = <<>> THEN <<>>
    ELSE IF Head(trace).op = "cb" THEN <<Head(trace).act>> \o CallbacksRun(Tail(trace))
    ELSE CallbacksRun(Tail(trace))

\* the owner thread polled an input event in this step
Polled == pc = "poll" /\ siv.input # <<>> /\ siv'.input = Tail(siv.input)

\* the owner thread ran a callback of the channel in this step
Received == siv'.executed # siv.executed

\* the ids of the callbacks in the channel
QueueIds == [i \in 1..Len(siv.cb_queue) |-> siv.cb_queue[i].id]

----------------------------------------------------------------------------
\* C1: in process_events, a dispatched input event or an executed callback
\* that leaves running false ends the pass at once with the value true; no
\* input event is polled and no callback is executed outside the polling and
\* draining loops of a pass.
C1_StopsAtOnce ==
    [][/\ (pc \in {"poll", "drain"} /\ (Polled \/ Received) /\ ~siv'.running)
            => (pc' = "post" /\ received' = TRUE)
       /\ (pc \notin {"poll", "drain"})
            => (Len(siv'.input) >= Len(siv.input) /\ siv'.executed = siv.executed)
       /\ (pc = "poll") => siv'.executed = siv.executed
       /\ (pc = "drain") => Len(siv'.input) >= Len(siv.input)]_vars

\* a pass was ended by quit while an input event and a callback were pending
C1_Witness ==
    /\ pc = "post"
    /\ ~siv.running
    /\ received
    /\ siv.input # <<>>
    /\ siv.cb_queue # <<>>

\* C2: the callbacks executed so far followed by the callbacks in the
\* channel are the callbacks sent, each once, in the order they were sent;
\* callbacks are executed only by the draining loop of process_events.
C2_ExactlyOnceFifo ==
    /\ [](LET ids == siv.executed \o QueueIds
          IN /\ Len(ids) = siv.nsent
             /\ \A i \in 1..Len(ids) : ids[i] = i)
    /\ [][Received => (pc = "drain" /\ Len(siv'.executed) = Len(siv.executed) + 1)]_vars

\* both producers sent a callback and both callbacks were executed
C2_Witness ==
    /\ \A p \in Producers : sent[p] >= 1
    /\ Len(siv.executed) >= 2

----------------------------------------------------------------------------
\* a global callback that quits is registered for the event
QuitRegistered(e) ==
    \E i \in 1..Len(siv.callbacks) :
        siv.callbacks[i] = CallbackEntry(e, "AfterChild", "quit")

\* the event gets to the global callbacks: the menubar does not take it, no
\* pre-event callback takes it and no view of the tree consumes it
ReachesGlobalCallbacks(e) ==
    LET rel == Relativized(e, Vec2(0, MenuOffset(siv)))
    IN /\ ~ReceiveEvents(siv.menubar)
       /\ ~MouseSelectsMenubar(siv, e)
       /\ Triggered(siv.callbacks, "BeforeChild", rel) = <<>>
       /\ ~StackOnEvent(Screen(siv), rel).consumed

\* C3 as stated: whenever the loop polls an event E for which a global
\* callback that quits is registered, dispatching E makes running false.
C3_QuitCallbackAlwaysQuits ==
    [][\A e \in Events :
          (Polled /\ Head(siv.input) = e /\ QuitRegistered(e)) => ~siv'.running]_vars

\* C3 amended: when the loop polls an event E for which a global callback
\* that quits is registered, and E gets to the global callbacks, running
\* becomes false and the pass ends; from there running stays false,
\* post_events runs and the loop of run() is left.
C3_QuitCallbackEndsRun ==
    [][/\ \A e \in Events :
             (Polled /\ Head(siv.input) = e /\ QuitRegistered(e) /\ ReachesGlobalCallbacks(e))
                => (~siv'.running /\ pc' = "post" /\ received')
       /\ (in_run /\ pc = "post" /\ ~siv.running)
            => (~siv'.running /\ pc' \in {"post", "loop"} /\ in_run')
       /\ (in_run /\ pc = "loop" /\ ~siv.running)
            => (~siv'.running /\ ((pc' = "loop" /\ in_run') \/ (pc' = "idle" /\ ~in_run')))]_vars

\* the loop polled 'q', the global callback quit ran and the pass ended
C3_Witness ==
    /\ in_run
    /\ pc = "post"
    /\ ~siv.running
    /\ Dispatched(Ev("Char_q"))
    /\ CallbacksRun(siv.trace) = <<"quit">>
    /\ Positions(siv.trace, "root.on_event") = {2}

----------------------------------------------------------------------------
\* C8: an on_event call made while the menubar receives events hands the
\* event to the menubar, once, and never to the root view.
C8_MenubarOnly ==
    [][\A e \in Events :
          (Dispatched(e)' /\ ReceiveEvents(siv.menubar))
             => /\ Positions(siv'.trace, "root.on_event") = {}
                /\ Cardinality(Positions(siv'.trace, "menubar.on_event")) = 1
                /\ \A i \in Positions(siv'.trace, "menubar.on_event") :
                      siv'.trace[i].ev = e]_vars

\* the selected menubar was given Enter over a button that consumes Enter
C8_Witness ==
    /\ Dispatched(Ev("Enter"))
    /\ Positions(siv.trace, "menubar.on_event") = {2}
    /\ Screen(siv) # <<>>
    /\ Screen(siv)[1].kind = "Button"

\* the call of select_menubar made by the mouse rule comes before the event
\* is handed to the menubar or to the root
SelectedByMouseRule(trace) == Len(trace) >= 2 /\ trace[2].op = "select_menubar"

\* C9: on_event selects the menubar before it routes the event exactly when
\* the event is a focus-grabbing mouse event at row 0, autohide is off and no
\* submenu is open.
C9_MouseRule ==
    [][\A e \in Events :
          Dispatched(e)'
             => (SelectedByMouseRule(siv'.trace)
                   <=> (/\ e.type = "Mouse"
                        /\ e.mouse = "Press"
                        /\ e.position.y = 0
                        /\ ~siv.menubar.autohide
                        /\ siv.menubar.state # "Submenu"))]_vars

\* a press at row 0 selected the menubar that was not selected
C9_Witness ==
    /\ Dispatched(MouseEv("Press", 0))
    /\ SelectedByMouseRule(siv.trace)
    /\ Positions(siv.trace, "menubar.on_event") = {3}

\* a press at row 0 with a submenu open went to the tree
C9_WitnessSubmenu ==
    /\ Dispatched(MouseEv("Press", 0))
    /\ ~siv.menubar.autohide
    /\ ~SelectedByMouseRule(siv.trace)
    /\ Positions(siv.trace, "root.on_event") = {2}

\* C10: an on_event call that hands the event to the root view runs the
\* callback of the result exactly once when the result is Consumed with a
\* callback, and runs no callback otherwise.
C10_DeferredCallbackOnce ==
    [][\A e \in Events :
          (Dispatched(e)' /\ ~ReceiveEvents(siv.menubar) /\ ~MouseSelectsMenubar(siv, e))
             => LET result == RootOnEvent(siv, Relativized(e, Vec2(0, MenuOffset(siv))))
                IN /\ Positions(siv'.trace, "root.on_event") = {2}
                   /\ IF result.consumed /\ result.cb # <<>>
                      THEN CallbacksRun(siv'.trace) = result.cb
                      ELSE CallbacksRun(siv'.trace) = <<>>]_vars

\* the button consumed Enter and its callback ran once
C10_Witness ==
    /\ Dispatched(Ev("Enter"))
    /\ siv.trace[2].op = "root.on_event"
    /\ CallbacksRun(siv.trace) = <<"quit">>
    /\ ~siv.running

----------------------------------------------------------------------------
\* the last method call presented a frame: layout, draw and present, once each
Refreshed ==
    /\ Cardinality(Positions(siv.trace, "layout")) = 1
    /\ Cardinality(Positions(siv.trace, "draw")) = 1
    /\ Cardinality(Positions(siv.trace, "backend.refresh")) = 1

\* the last method call made no part of a refresh
NotRefreshed ==
    /\ Positions(siv.trace, "layout") = {}
    /\ Positions(siv.trace, "draw") = {}
    /\ Positions(siv.trace, "backend.refresh") = {}

\* the positions of the log where the synthetic refresh event was dispatched
RefreshEvents(trace) ==
    {i \in 1..Len(trace) : trace[i] = Call("on_event", Ev("Refresh"), "")}

\* C4 as stated: with no frame rate set, every post_events(false) refreshes.
C4_IdleCycleRefreshes ==
    [][(PostCalled(FALSE)' /\ siv.fps = 0) => Refreshed']_vars

\* C4 amended: with no frame rate set, post_events(false) performs no
\* layout, draw or present and dispatches no event; it only counts the idle
\* frame.  post_events(true) refreshes.
C4_IdleCycleDoesNotRefresh ==
    [][/\ (PostCalled(FALSE)' /\ siv.fps = 0)
            => /\ NotRefreshed'
               /\ RefreshEvents(siv'.trace) = {}
               /\ siv'.boring_frame_count = siv.boring_frame_count + 1
       /\ (PostCalled(TRUE)' /\ siv.fps = 0)
            => (Refreshed' /\ siv'.boring_frame_count = 0)]_vars

\* with no frame rate set, idle cycles have gone by without a redraw
C4_Witness ==
    /\ PostCalled(FALSE)
    /\ siv.fps = 0
    /\ siv.boring_frame_count = 3
    /\ NotRefreshed

\* C5: with a frame rate F > 0, post_events(false) refreshes exactly when
\* the idle-frame counter has reached the threshold, exactly once, and the
\* refresh resets the counter (which then counts this idle cycle).
C5_RefreshAtThreshold ==
    [][(PostCalled(FALSE)' /\ siv.fps > 0)
          => IF siv.boring_frame_count >= Repeats(siv.fps)
             THEN Refreshed' /\ siv'.boring_frame_count = 1
             ELSE NotRefreshed' /\ siv'.boring_frame_count = siv.boring_frame_count + 1]_vars

\* at 11 frames per second the third idle cycle in a row went by unrefreshed
C5_WitnessBelow ==
    /\ PostCalled(FALSE)
    /\ siv.fps = 11
    /\ siv.boring_frame_count = 3
    /\ NotRefreshed

\* an idle cycle refreshed and the counter restarted
C5_Witness ==
    /\ PostCalled(FALSE)
    /\ siv.fps = 11
    /\ siv.boring_frame_count = 1
    /\ Refreshed

\* the larger of two numbers
Max(a, b) == IF a >= b THEN a ELSE b

\* C6 as stated: with a frame rate F > 0 an idle cycle redraws exactly when
\* the idle-frame counter has reached max(1, 1000 / 30 / F).
C6_ThresholdAtLeastOne ==
    [][(PostCalled(FALSE)' /\ siv.fps > 0)
          => (Refreshed' <=> siv.boring_frame_count >= Max(1, (1000 \div 30) \div siv.fps))]_vars

\* C6 amended: with a frame rate F > 0 an idle cycle redraws exactly when
\* the idle-frame counter has reached 1000 / 30 / F (integer division),
\* which is 0 for F > 33: then every idle cycle redraws.
C6_Threshold ==
    [][(PostCalled(FALSE)' /\ siv.fps > 0)
          => /\ Refreshed' <=> siv.boring_frame_count >= (1000 \div 30) \div siv.fps
             /\ siv.fps > 33 => Refreshed'
             /\ (siv.fps <= 33 /\ siv.boring_frame_count = 0) => NotRefreshed']_vars

\* at 34 frames per second an idle cycle redrew with the counter at 0
C6_Witness ==
    /\ PostCalled(FALSE)
    /\ siv.fps = 34
    /\ Refreshed
    /\ Len(siv.trace) >= 2
    /\ siv.trace[2] = Call("on_event", Ev("Refresh"), "")

\* at 1 frame per second the 33 idle cycles before the redraw went by
C6_WitnessSlow ==
    /\ PostCalled(FALSE)
    /\ siv.fps = 1
    /\ siv.boring_frame_count = 33
    /\ NotRefreshed

\* C7: post_events dispatches the synthetic refresh event exactly once, and
\* before the layout, when it is an idle cycle that has reached the
\* threshold; post_events(true) and an idle cycle below the threshold
\* dispatch none.
C7_RefreshEventOnTimeout ==
    [][\A b \in BOOLEAN :
          PostCalled(b)'
             => IF ~b /\ siv.fps > 0 /\ siv.boring_frame_count >= Repeats(siv.fps)
                THEN /\ Cardinality(RefreshEvents(siv'.trace)) = 1
                     /\ Refreshed'
                     /\ \A i \in RefreshEvents(siv'.trace) :
                           \A j \in Positions(siv'.trace, "layout") : i < j
                ELSE RefreshEvents(siv'.trace) = {}]_vars

\* an idle cycle dispatched the refresh event and then refreshed
C7_Witness ==
    /\ PostCalled(FALSE)
    /\ RefreshEvents(siv.trace) = {2}
    /\ Refreshed

\* input was received and the frame was presented without a refresh event
C7_WitnessInput ==
    /\ PostCalled(TRUE)
    /\ siv.fps > 0
    /\ RefreshEvents(siv.trace) = {}
    /\ Refreshed

----------------------------------------------------------------------------
\* the event is handed to the view tree: the menubar does not take it and no
\* pre-event callback takes it
HandedToTree(e) ==
    /\ ~ReceiveEvents(siv.menubar)
    /\ ~MouseSelectsMenubar(siv, e)
    /\ Triggered(siv.callbacks, "BeforeChild", Relativized(e, Vec2(0, MenuOffset(siv)))) = <<>>

\* the global callbacks registered for the event, in registration order
GlobalCallbacks(e) ==
    Matching(siv.callbacks, "AfterChild", Relativized(e, Vec2(0, MenuOffset(siv))))

\* C11 as stated: when on_event dispatches an event E that has global
\* callbacks, they run if no view of the tree consumes E and they do not run
\* if a view consumes E.
C11_GlobalCallbackWhenUncaught ==
    [][\A e \in Events :
          (Dispatched(e)' /\ GlobalCallbacks(e) # <<>>)
             => IF StackOnEvent(Screen(siv), Relativized(e, Vec2(0, MenuOffset(siv)))).consumed
                THEN CallbacksRun(siv'.trace) = <<>>
                ELSE CallbacksRun(siv'.trace) = GlobalCallbacks(e)]_vars

\* the menubar takes the event, or a pre-event callback consumes it
TakenBeforeTree(e) ==
    \/ ReceiveEvents(siv.menubar)
    \/ MouseSelectsMenubar(siv, e)
    \/ AndAll(Triggered(siv.callbacks, "BeforeChild",
                         Relativized(e, Vec2(0, MenuOffset(siv))))).consumed

\* C11 amended: when on_event hands an event E that has global callbacks to
\* the view tree, the global callbacks run, once each, if no view consumes E,
\* and only the callback of the consuming view runs if a view consumes E;
\* when E is not handed to the tree no view is given E, and no global
\* callback of E runs when the menubar takes E or a pre-event callback
\* consumes E; when the pre-event callbacks that answer E all answer Ignored,
\* the global callbacks run.
C11_GlobalCallbackWhenHandedToTree ==
    [][\A e \in Events :
          (Dispatched(e)' /\ GlobalCallbacks(e) # <<>>)
             => LET inner == StackOnEvent(Screen(siv), Relativized(e, Vec2(0, MenuOffset(siv))))
                IN /\ (HandedToTree(e) /\ ~inner.consumed)
                        => CallbacksRun(siv'.trace) = GlobalCallbacks(e)
                   /\ (HandedToTree(e) /\ inner.consumed)
                        => CallbacksRun(siv'.trace) = inner.cb
                   /\ ~HandedToTree(e)
                        => Positions(siv'.trace, "stack.on_event") = {}
                   /\ TakenBeforeTree(e)
                        => CallbacksRun(siv'.trace) # GlobalCallbacks(e)
                   /\ (~HandedToTree(e) /\ ~TakenBeforeTree(e))
                        => CallbacksRun(siv'.trace) = GlobalCallbacks(e)]_vars

\* 'q' was dispatched to a tree whose EditView consumed it: the global
\* callback of 'q' did not run
C11_WitnessConsumed ==
    /\ Dispatched(Ev("Char_q"))
    /\ GlobalCallbacks(Ev("Char_q")) = <<"quit">>
    /\ Positions(siv.trace, "stack.on_event") = {3}
    /\ Screen(siv) # <<>>
    /\ Screen(siv)[Len(Screen(siv))].kind = "EditView"
    /\ CallbacksRun(siv.trace) = <<>>
    /\ siv.running

\* 'q' was dispatched to a tree that ignored it: the global callback ran
C11_Witness ==
    /\ Dispatched(Ev("Char_q"))
    /\ GlobalCallbacks(Ev("Char_q")) = <<"quit">>
    /\ Positions(siv.trace, "stack.on_event") = {3}
    /\ Screen(siv) = <<>>
    /\ CallbacksRun(siv.trace) = <<"quit">>
    /\ ~siv.running

----------------------------------------------------------------------------

\* 'q' was dispatched while a pre-event callback answered it with Ignored:
\* no view was given 'q' and the global callback ran
C11_WitnessIgnored ==
    /\ Dispatched(Ev("Char_q"))
    /\ GlobalCallbacks(Ev("Char_q")) = <<"quit">>
    /\ Triggered(siv.callbacks, "BeforeChild", Ev("Char_q")) = <<Ignored>>
    /\ Positions(siv.trace, "stack.on_event") = {}
    /\ CallbacksRun(siv.trace) = <<"quit">>
    /\ ~siv.running

\* 'q' was dispatched while a pre-event callback declined it: the EditView
\* was given 'q' and consumed it
C11_WitnessDeclined ==
    /\ Dispatched(Ev("Char_q"))
    /\ \E i \in 1..Len(siv.callbacks) :
          siv.callbacks[i] = InnerEntry(Ev("Char_q"), "BeforeChild", "none", "")
    /\ Positions(siv.trace, "stack.on_event") = {3}
    /\ Screen(siv) # <<>>
    /\ CallbacksRun(siv.trace) = <<>>

\* the pre-event callbacks registered for the event, in registration order
PreCallbacks(e) ==
    Matching(siv.callbacks, "BeforeChild", Relativized(e, Vec2(0, MenuOffset(siv))))

\* the last method call was set_on_pre_event(e, act)
PreEventSet(e, act) == siv.trace = <<Call("set_on_pre_event", e, act)>>

\* set_on_pre_event(e, act) adds act to the pre-event callbacks of e
RegistersPreEvent ==
    \A e \in Events, act \in CbActs :
        PreEventSet(e, act)'
           => siv'.callbacks = Append(siv.callbacks, CallbackEntry(e, "BeforeChild", act))

\* C12 as stated: set_on_pre_event registers a pre-event callback, and
\* whenever on_event dispatches an event that has pre-event callbacks, they
\* run, the view tree is not given the event and no post-event callback runs.
C12_PreEventAlwaysRuns ==
    [][/\ RegistersPreEvent
       /\ \A e \in Events :
             (Dispatched(e)' /\ PreCallbacks(e) # <<>>)
                => /\ CallbacksRun(siv'.trace) = PreCallbacks(e)
                   /\ Positions(siv'.trace, "stack.on_event") = {}]_vars

\* C12 amended: set_on_pre_event registers a pre-event callback, and when
\* on_event dispatches an event that has pre-event callbacks while the
\* menubar does not take the event, the pre-event callbacks run, once each,
\* the view tree is not given the event and no post-event callback runs.
C12_PreEventRunsInsteadOfTree ==
    [][/\ RegistersPreEvent
       /\ \A e \in Events :
             (/\ Dispatched(e)'
              /\ PreCallbacks(e) # <<>>
              /\ ~ReceiveEvents(siv.menubar)
              /\ ~MouseSelectsMenubar(siv, e))
                => /\ CallbacksRun(siv'.trace) = PreCallbacks(e)
                   /\ Positions(siv'.trace, "root.on_event") = {2}
                   /\ Positions(siv'.trace, "stack.on_event") = {}]_vars

\* 'q' was dispatched with a pre-event callback and a global callback of 'q'
\* and an EditView on top: only the pre-event callback ran
C12_Witness ==
    /\ Dispatched(Ev("Char_q"))
    /\ PreCallbacks(Ev("Char_q")) = <<"select_menubar">>
    /\ GlobalCallbacks(Ev("Char_q")) = <<"quit">>
    /\ Screen(siv) # <<>>
    /\ Screen(siv)[Len(Screen(siv))].kind = "EditView"
    /\ Positions(siv.trace, "root.on_event") = {2}
    /\ Positions(siv.trace, "stack.on_event") = {}
    /\ CallbacksRun(siv.trace) = <<"select_menubar">>
    /\ siv.running

----------------------------------------------------------------------------
\* the callbacks reset_default_callbacks registers are all registered
HasDefaultCallbacks ==
    LET defaults == ResetDefaultCallbacks([callbacks |-> <<>>]).callbacks
    IN \A i \in 1..Len(defaults) :
          \E j \in 1..Len(siv.callbacks) : siv.callbacks[j] = defaults[i]

\* the last method call cleared the screen of the backend
Cleared == Positions(siv.trace, "clear") # {}

\* C13 as stated: on a controller with the default callbacks, every on_event
\* call with Ctrl-C or Exit leaves running false and every on_event call with
\* WindowResize clears the screen.
C13_DefaultsAlwaysAct ==
    [][HasDefaultCallbacks
          => /\ (Dispatched(Ev("CtrlC"))' \/ Dispatched(Ev("Exit"))') => ~siv'.running
             /\ Dispatched(Ev("WindowResize"))' => Cleared']_vars

\* C13 amended: on a controller with the default callbacks whose menubar is
\* not receiving events, every on_event call with Ctrl-C or Exit leaves
\* running false and every on_event call with WindowResize clears the screen.
C13_DefaultsActOutsideMenubar ==
    [][(HasDefaultCallbacks /\ ~ReceiveEvents(siv.menubar))
          => /\ (Dispatched(Ev("CtrlC"))' \/ Dispatched(Ev("Exit"))') => ~siv'.running
             /\ Dispatched(Ev("WindowResize"))' => Cleared']_vars

\* Exit was dispatched after reset_default_callbacks registered the default
\* callbacks behind a callback of the application, and running is false
C13_Witness ==
    /\ Dispatched(Ev("Exit"))
    /\ HasDefaultCallbacks
    /\ siv.callbacks[1].trigger = Ev("Char_q")
    /\ ~ReceiveEvents(siv.menubar)
    /\ CallbacksRun(siv.trace) = <<"quit">>
    /\ ~siv.running

\* WindowResize was dispatched on a controller with the default callbacks
\* and the screen was cleared
C13_WitnessResize ==
    /\ Dispatched(Ev("WindowResize"))
    /\ HasDefaultCallbacks
    /\ ~ReceiveEvents(siv.menubar)
    /\ CallbacksRun(siv.trace) = <<"clear">>
    /\ Cleared
    /\ siv.running

----------------------------------------------------------------------------
\* the call the last method call logged at its end, with its result
LastCall == IF siv.trace = <<>> THEN Call("", NoEvent, "") ELSE siv.trace[Len(siv.trace)]

\* the number of layers of the screen that is active before the step
ActiveCount == Len(siv.screens[siv.active_screen + 1])

\* C14: every screen starts without layers; add_layer and
\* add_fullscreen_layer make the layer count of the screen one more; pop_layer
\* on a screen with layers returns a layer and makes the count one less;
\* pop_layer on an empty screen returns None and the count stays zero.  So
\* the count after a sequence is the number of adds minus the number of pops
\* that returned a layer.
C14_LayerCount ==
    /\ \A i \in 1..Len(siv.screens) : Len(siv.screens[i]) = 0
    /\ [][/\ LastCall'.op \in {"add_layer", "add_fullscreen_layer"}
                => Len(siv'.screens[siv.active_screen + 1]) = ActiveCount + 1
          /\ (LastCall'.op = "pop_layer" /\ ActiveCount > 0)
                => /\ LastCall'.act = "Some"
                   /\ Len(siv'.screens[siv.active_screen + 1]) = ActiveCount - 1
          /\ (LastCall'.op = "pop_layer" /\ ActiveCount = 0)
                => /\ LastCall'.act = "None"
                   /\ Len(siv'.screens[siv.active_screen + 1]) = 0
          /\ LastCall'.op \in {"add_screen", "add_active_screen"}
                => Len(siv'.screens[Len(siv'.screens)]) = 0]_vars

\* pop_layer returned None on an empty screen that had layers before
C14_Witness ==
    /\ LastCall = Call("pop_layer", NoEvent, "None")
    /\ Screen(siv) = <<>>
    /\ Len(siv.screens) = 2
    /\ siv.active_screen = 0
    /\ Len(siv.screens[2]) = 2

\* add_fullscreen_layer put a third layer on a screen
C14_WitnessAdd ==
    /\ LastCall = Call("add_fullscreen_layer", NoEvent, "")
    /\ Len(Screen(siv)) = 3
    /\ ~Screen(siv)[1].full
    /\ Screen(siv)[3].full

----------------------------------------------------------------------------
\* the step leaves the layers of every screen but the active one, the number
\* of screens and the active screen as they are
OnlyActiveStackChanges ==
    /\ Len(siv'.screens) = Len(siv.screens)
    /\ siv'.active_screen = siv.active_screen
    /\ \A i \in 1..Len(siv.screens) :
          i # siv.active_screen + 1 => siv'.screens[i] = siv.screens[i]

\* C15: add_layer, add_fullscreen_layer, pop_layer and reposition_layer
\* change the layers of the active screen alone, and add_screen,
\* add_active_screen and set_screen leave the layers of every screen as they
\* are; so the layers of a screen are the same when the application comes
\* back to it.
C15_InactiveScreensKept ==
    [][/\ LastCall'.op \in {"add_layer", "add_fullscreen_layer", "pop_layer", "reposition_layer"}
             => OnlyActiveStackChanges
       /\ LastCall'.op \in {"add_screen", "add_active_screen", "set_screen", "panic"}
             => \A i \in 1..Len(siv.screens) : siv'.screens[i] = siv.screens[i]]_vars

\* a layer was added to the second screen while the first screen, not
\* active, held a different layer
C15_Witness ==
    /\ LastCall.op = "add_fullscreen_layer"
    /\ siv.active_screen = 1
    /\ Len(siv.screens) = 2
    /\ Len(siv.screens[1]) = 1
    /\ siv.screens[1][1].kind = "TextView"
    /\ ~siv.screens[1][1].full
    /\ Len(siv.screens[2]) = 1
    /\ siv.screens[2][1].kind = "Button"

\* the application came back to the first screen: its layer is there, and
\* the second screen holds a different one
C15_WitnessBack ==
    /\ LastCall = Call("set_screen", NoEvent, "0")
    /\ siv.active_screen = 0
    /\ Len(siv.screens) = 2
    /\ Screen(siv) = <<NewView("TextView")>>
    /\ siv.screens[2] = <<[NewView("Button") EXCEPT !.full = TRUE]>>

----------------------------------------------------------------------------
\* the ids of the screens
ScreenIds(s) == 0..(Len(s.screens) - 1)

\* C16: the active screen is always one of the screens; add_screen returns
\* the id of a new screen and leaves the active screen as it is;
\* add_active_screen returns the id of a new screen and makes it active;
\* set_screen makes an existing screen active and panics, leaving the active
\* screen as it is, on the id of no screen.
C16_ActiveScreenExists ==
    /\ ActiveScreen(siv) \in ScreenIds(siv)
    /\ [][/\ ActiveScreen(siv') \in ScreenIds(siv')
          /\ LastCall'.op = "add_screen"
                => /\ LastCall'.act = ToString(Len(siv.screens))
                   /\ ScreenIds(siv') = ScreenIds(siv) \cup {Len(siv.screens)}
                   /\ ActiveScreen(siv') = ActiveScreen(siv)
          /\ LastCall'.op = "add_active_screen"
                => /\ LastCall'.act = ToString(Len(siv.screens))
                   /\ ScreenIds(siv') = ScreenIds(siv) \cup {Len(siv.screens)}
                   /\ ActiveScreen(siv') = Len(siv.screens)
          /\ \A screen_id \in 0..(MaxScreens + 1) :
                /\ LastCall' = Call("set_screen", NoEvent, ToString(screen_id))
                      => /\ screen_id \in ScreenIds(siv')
                         /\ ActiveScreen(siv') = screen_id
                         /\ ScreenIds(siv') = ScreenIds(siv)
                /\ LastCall' = Call("panic", NoEvent, ToString(screen_id))
                      => /\ screen_id \notin ScreenIds(siv)
                         /\ ActiveScreen(siv') = ActiveScreen(siv)
                         /\ ScreenIds(siv') = ScreenIds(siv)]_vars

\* set_screen panicked on the id of no screen while the second of two
\* screens was active
C16_Witness ==
    /\ LastCall = Call("panic", NoEvent, "2")
    /\ Len(siv.screens) = 2
    /\ ActiveScreen(siv) = 1

\* add_active_screen returned the id of the second screen and made it active
C16_WitnessAddActive ==
    /\ LastCall = Call("add_active_screen", NoEvent, "1")
    /\ Len(siv.screens) = 2
    /\ ActiveScreen(siv) = 1
    /\ Len(siv.screens[1]) > 0

\* add_screen returned the id of the second screen and the first stayed active
C16_WitnessAdd ==
    /\ LastCall = Call("add_screen", NoEvent, "1")
    /\ Len(siv.screens) = 2
    /\ ActiveScreen(siv) = 0

----------------------------------------------------------------------------
\* the last method call was a lookup (call_on_name or find_name) of the name
\* with the type
LookedUp(name, type) ==
    /\ Len(siv.trace) >= 2
    /\ siv.trace[1] \in {Call("call_on_name", NoEvent, name), Call("find_name", NoEvent, name)}
    /\ siv.trace[2] = Call("type", NoEvent, type)

\* the views the closure of the last lookup ran on, by their place in the stack
ClosureRuns == [i \in 1..Cardinality(Positions(siv.trace, "closure")) |->
                   siv.trace[2 + i].act]

\* C17: a lookup by name N and type T returns Some, having run its closure
\* once on the first view of the tree with the name N and the type T, when
\* such a view was inserted; it returns None, running nothing, when every
\* view of the tree has another name or another type.
C17_LookupFindsNamedView ==
    [][\A name \in FindNames \cup {DEBUG_VIEW_NAME},
          type \in FindKinds \cup {"DebugView", "Dialog"} :
          LookedUp(name, type)'
             => LET layers == Screen(siv)
                    views == {i \in 1..Len(layers) :
                                 layers[i].name = name /\ layers[i].named = type}
                IN IF views = {}
                   THEN /\ LastCall' = Call("call_on", NoEvent, "None")
                        /\ ClosureRuns' = <<>>
                   ELSE /\ LastCall' = Call("call_on", NoEvent, "Some")
                        /\ ClosureRuns' = <<ToString(Lowest(views))>>]_vars

\* a TextView named "a" was inserted above an EditView named "a" and a
\* TextView named "b"; the lookup of "a" as a TextView found it
C17_Witness ==
    /\ LookedUp("a", "TextView")
    /\ LastCall = Call("call_on", NoEvent, "Some")
    /\ Len(Screen(siv)) = 3
    /\ Screen(siv)[1] = WithId(NewView("EditView"), "a")
    /\ Screen(siv)[2] = WithId(NewView("TextView"), "b")
    /\ Screen(siv)[3].name = "a"
    /\ Screen(siv)[3].kind = "TextView"
    /\ ClosureRuns = <<"3">>

\* the debug console is on the screen: the lookup of its view as a
\* DebugView found it under the Dialog
C17_WitnessConsole ==
    /\ LookedUp(DEBUG_VIEW_NAME, "DebugView")
    /\ LastCall = Call("call_on", NoEvent, "Some")
    /\ Screen(siv) = <<DebugConsole>>
    /\ ClosureRuns = <<"1">>

\* the only view named "a" is an EditView: the lookup of "a" as a TextView
\* returned None
C17_WitnessOtherType ==
    /\ LookedUp("a", "TextView")
    /\ LastCall = Call("call_on", NoEvent, "None")
    /\ Screen(siv) = <<WithId(NewView("EditView"), "a")>>

----------------------------------------------------------------------------
\* the controller but for the log of the last method call
Controller(s) == [s EXCEPT !.trace = <<>>]

\* C18: a lookup by name whose name no view of the tree has, or only views
\* of another runtime type have, returns None without running the closure,
\* and leaves the tree, the focus and every other field of the controller as
\* they were.
C18_FailedLookupChangesNothing ==
    [][\A name \in FindNames \cup {DEBUG_VIEW_NAME},
          type \in FindKinds \cup {"DebugView", "Dialog"} :
          (/\ LookedUp(name, type)'
           /\ \A i \in 1..Len(Screen(siv)) :
                 Screen(siv)[i].name # name \/ Screen(siv)[i].named # type)
             => /\ LastCall' = Call("call_on", NoEvent, "None")
                /\ Positions(siv'.trace, "closure") = {}
                /\ Positions(siv'.trace, "panic") = {}
                /\ Controller(siv') = Controller(siv)]_vars

\* call_on_name of "a" as a TextView returned None on a tree whose view
\* named "a" is an EditView holding the focus, under a TextView named "b"
C18_Witness ==
    /\ LookedUp("a", "TextView")
    /\ siv.trace[1].op = "call_on_name"
    /\ LastCall = Call("call_on", NoEvent, "None")
    /\ Len(Screen(siv)) = 2
    /\ Screen(siv)[1] = [WithId(NewView("EditView"), "a") EXCEPT !.focused = TRUE]
    /\ Screen(siv)[2] = WithId(NewView("TextView"), "b")

\* call_on_name of the view of the debug console as a Dialog returned None
\* and left the Dialog as it was
C18_WitnessConsole ==
    /\ LookedUp(DEBUG_VIEW_NAME, "Dialog")
    /\ siv.trace[1].op = "call_on_name"
    /\ LastCall = Call("call_on", NoEvent, "None")
    /\ Screen(siv) = <<DebugConsole>>

\* find_name of "b" returned None on a tree without a view named "b"
C18_WitnessNoName ==
    /\ \E type \in FindKinds : LookedUp("b", type)
    /\ siv.trace[1].op = "find_name"
    /\ LastCall = Call("call_on", NoEvent, "None")
    /\ Screen(siv) # <<>>
    /\ Named(Screen(siv), NameSelector("b")) = {}

----------------------------------------------------------------------------
\* the last method call was focus_name(name)
FocusCalled(name) ==
    siv.trace # <<>> /\ siv.trace[1] = Call("focus_name", NoEvent, name)

\* the places in the stack of the views holding the focus
Focused(layers) == {i \in 1..Len(layers) : layers[i].focused}

\* C19: focus_name returns Err(()) when no view has the name or when the
\* first view of that name declines the focus, and then the controller (the
\* focus, the layers, the running flag and every other field) is as before;
\* otherwise it returns Ok(()) and the view found holds the focus, alone.
C19_FocusResult ==
    [][\A name \in FindNames \cup {DEBUG_VIEW_NAME} :
          FocusCalled(name)'
             => LET layers == Screen(siv)
                    target == {i \in 1..Len(layers) : layers[i].name = name}
                IN IF target = {} \/ ~TakeFocus(layers[Lowest(target)])
                   THEN /\ LastCall' = Call("focus", NoEvent, "Err")
                        /\ Controller(siv') = Controller(siv)
                   ELSE /\ LastCall' = Call("focus", NoEvent, "Ok")
                        /\ Focused(Screen(siv')) = {Lowest(target)}]_vars

\* focus_name of "a" returned Err: the view named "a" is a TextView, which
\* declines the focus, and the EditView named "b" keeps the focus
C19_Witness ==
    /\ FocusCalled("a")
    /\ LastCall = Call("focus", NoEvent, "Err")
    /\ Len(Screen(siv)) = 2
    /\ Screen(siv)[1] = WithId(NewView("TextView"), "a")
    /\ Screen(siv)[2] = [WithId(NewView("EditView"), "b") EXCEPT !.focused = TRUE]

\* focus_name of "a" returned Err on a tree without a view named "a"
C19_WitnessNotFound ==
    /\ FocusCalled("a")
    /\ LastCall = Call("focus", NoEvent, "Err")
    /\ Screen(siv) # <<>>
    /\ Named(Screen(siv), NameSelector("a")) = {}

\* focus_name of "a" returned Ok and moved the focus to the EditView named "a"
C19_WitnessOk ==
    /\ FocusCalled("a")
    /\ LastCall = Call("focus", NoEvent, "Ok")
    /\ Len(Screen(siv)) = 2
    /\ Screen(siv)[1].kind = "EditView"
    /\ Screen(siv)[2].name = "b"
    /\ Focused(Screen(siv)) = {1}

----------------------------------------------------------------------------
\* the last method call on the Enableable was wrap_on_event(e)
WrappedEvent(e) ==
    widgets.trace # <<>> /\ widgets.trace[1] = Call("wrap_on_event", e, "")

\* C20: a disabled Enableable returns Ignored for every event, makes no call
\* on the inner view and leaves the inner view as it was; an enabled one
\* gives the event to the inner view, once, and returns the inner view's
\* result.
C20_DisabledIgnoresEvents ==
    [][\A e \in Events :
          WrappedEvent(e)'
             => /\ IsEnabled(widgets'.enableable) = IsEnabled(widgets.enableable)
                /\ IF IsEnabled(widgets.enableable)
                   THEN /\ widgets'.trace = <<Call("wrap_on_event", e, ""), Call("view.on_event", e, "")>>
                        /\ widgets'.result = EditViewOnEvent(widgets.enableable.view, e).result
                        /\ widgets'.enableable.view = EditViewOnEvent(widgets.enableable.view, e).view
                   ELSE /\ widgets'.trace = <<Call("wrap_on_event", e, "")>>
                        /\ widgets'.result = Ignored
                        /\ widgets'.enableable.view = widgets.enableable.view]_vars

\* a disabled Enableable whose EditView holds two characters was given a
\* character: the result is Ignored and the content is as it was
C20_Witness ==
    /\ WrappedEvent(Ev("Char_q"))
    /\ ~IsEnabled(widgets.enableable)
    /\ widgets.enableable.view.len = 2
    /\ widgets.result = Ignored
    /\ Len(widgets.trace) = 1

\* an enabled Enableable was given Enter: the result is the EditView's
C20_WitnessEnabled ==
    /\ WrappedEvent(Ev("Enter"))
    /\ IsEnabled(widgets.enableable)
    /\ widgets.enableable.view.len = 1
    /\ widgets.result = Consumed(<<"noop">>)
    /\ Len(widgets.trace) = 2

----------------------------------------------------------------------------
(* Radio groups.                                                           *)

\* the last call was `op` on the button of that id
RadioCalled(op, id) ==
    widgets.trace # <<>> /\ widgets.trace[1] = Call(op, NoEvent, ToString(id))

\* the callback of the group's on_change with the value of the button of
\* that position
OnChangeOf(i) == OnChangeClosure("on_change", widgets.radio.state.values[i])

\* the controller ran that callback during the last call
RanCallback(act) == \E k \in 1..Len(siv.trace) : siv.trace[k] = Call("cb", NoEvent, act)

\* C21: when select() on the button of id i returns, the group's
\* selected_id() is i, that button reports is_selected(), no other button of
\* the group does, and the controller has run no callback: the change
\* callback, if any, is in the result select returned.
C21_SelectSelectsOnlyThatButton ==
    [][\A i \in ButtonIndex' :
          LET b == widgets'.radio.buttons[i]
              state == widgets'.radio.state
          IN widgets'.trace = <<Call("select", NoEvent, ToString(b.id))>>
                => /\ SelectedId(state) = b.id
                   /\ IsSelected(state, b)
                   /\ \A j \in ButtonIndex' \ {i} : ~IsSelected(state, widgets'.radio.buttons[j])
                   /\ siv' = Fresh(siv)
                   /\ widgets'.result.consumed
                   /\ state.on_change # <<>> => widgets'.result.cb = <<OnChangeOf(i)'>>]_vars

\* select() on the second button of two, with a change callback set
C21_Witness ==
    /\ Len(widgets.radio.buttons) = 2
    /\ RadioCalled("select", 1)
    /\ SelectedId(widgets.radio.state) = 1
    /\ ~IsSelected(widgets.radio.state, widgets.radio.buttons[1])
    /\ widgets.result = Consumed(<<"on_change:b">>)

\* C22: the buttons of a group have the ids 0..n-1 in creation order, every
\* button has its value, exactly one button of a non-empty group reports
\* is_selected(); the selection is 0 at first, creating a button keeps it,
\* and only a selecting call changes it.
C22_ExactlyOneSelected ==
    /\ SelectedId(widgets.radio.state) = 0
    /\ [](LET state == widgets.radio.state
              buttons == widgets.radio.buttons
          IN /\ Len(state.values) = Len(buttons)
             /\ \A i \in 1..Len(buttons) : buttons[i].id = i - 1
             /\ buttons # <<>>
                   => Cardinality({i \in 1..Len(buttons) : IsSelected(state, buttons[i])}) = 1)
    /\ [][/\ (widgets'.trace # <<>> /\ widgets'.trace[1].op = "button")
                => /\ SelectedId(widgets'.radio.state) = SelectedId(widgets.radio.state)
                   /\ Len(widgets'.radio.buttons) = Len(widgets.radio.buttons) + 1
          /\ SelectedId(widgets'.radio.state) # SelectedId(widgets.radio.state)
                => widgets'.trace[1].op \in {"select", "selected", "with_selected",
                                             "button.on_event", "dispatch"}]_vars

\* a second button created while the first one is selected
C22_Witness ==
    /\ Len(widgets.radio.buttons) = 2
    /\ widgets.trace = <<Call("button", NoEvent, "b")>>
    /\ IsSelected(widgets.radio.state, widgets.radio.buttons[1])
    /\ ~IsSelected(widgets.radio.state, widgets.radio.buttons[2])

\* the first button selected again after the second one was
C22_WitnessBack ==
    /\ Len(widgets.radio.buttons) = 2
    /\ RadioCalled("selected", 0)
    /\ IsSelected(widgets.radio.state, widgets.radio.buttons[1])
    /\ ~IsSelected(widgets.radio.state, widgets.radio.buttons[2])
    /\ ~widgets.radio.buttons[2].enabled

\* the position of the call `op` in the log of the controller, 0 if absent
FirstCall(op) ==
    IF \E k \in 1..Len(siv.trace) : siv.trace[k].op = op
    THEN CHOOSE k \in 1..Len(siv.trace) :
             /\ siv.trace[k].op = op
             /\ \A m \in 1..(k - 1) : siv.trace[m].op # op
    ELSE 0

\* the last call selected the button of that position: select(), selected(),
\* with_selected(true), or Enter given to the button by on_event
Selecting(i) ==
    LET id == widgets.radio.buttons[i].id
    IN \/ RadioCalled("select", id)
       \/ RadioCalled("selected", id)
       \/ widgets.trace = <<Call("with_selected", NoEvent, ToString(id)),
                            Call("arg", NoEvent, "true")>>
       \/ widgets.trace = <<Call("dispatch", Ev("Enter"), ToString(id))>>

\* C23 as stated: every selection of a button of a group with a change
\* callback stores the selection and has fired the callback when it returns.
C23_SelectionFiresOnChange ==
    [][\A i \in ButtonIndex :
          (Selecting(i)' /\ widgets.radio.state.on_change # <<>>)
             => /\ IsSelected(widgets'.radio.state, widgets'.radio.buttons[i])
                /\ RanCallback(OnChangeOf(i))']_vars

\* C23: every selection stores the selection before it returns.  The change
\* callback is not fired by the selection: select() returns it in its
\* Consumed result, selected() and with_selected() drop it, and on_event of
\* the controller runs it, with the value of the newly selected button, after
\* the button's on_event returned and before on_event itself returns.
C23_SelectionStoredCallbackDeferred ==
    [][\A i \in ButtonIndex :
          LET id == widgets.radio.buttons[i].id
              set == widgets.radio.state.on_change # <<>>
          IN Selecting(i)'
                => /\ IsSelected(widgets'.radio.state, widgets'.radio.buttons[i])
                   /\ widgets'.radio.state.on_change = widgets.radio.state.on_change
                   /\ IF widgets'.trace[1].op = "dispatch"
                      THEN /\ FirstCall("radio.on_event")' = 3
                           /\ siv'.trace[3].act = ToString(id)
                           /\ IF set
                              THEN /\ Len(siv'.trace) = 4
                                   /\ siv'.trace[4] = Call("cb", NoEvent, OnChangeOf(i))
                              ELSE Len(siv'.trace) = 3
                      ELSE /\ siv'.trace = <<>>
                           /\ widgets'.result =
                                 IF widgets'.trace[1].op # "select" THEN Ignored
                                 ELSE IF set THEN Consumed(<<OnChangeOf(i)>>)
                                 ELSE Consumed(<<>>)]_vars

\* Enter given by on_event to the second button, the change callback run
\* with its value
C23_Witness ==
    /\ widgets.trace = <<Call("dispatch", Ev("Enter"), "1")>>
    /\ IsSelected(widgets.radio.state, widgets.radio.buttons[2])
    /\ Len(siv.trace) = 4
    /\ siv.trace[4] = Call("cb", NoEvent, "on_change:a")

\* selected() on the second button of a group with a change callback
C23_WitnessDropped ==
    /\ RadioCalled("selected", 1)
    /\ widgets.radio.state.on_change # <<>>
    /\ IsSelected(widgets.radio.state, widgets.radio.buttons[2])
    /\ siv.trace = <<>>
    /\ widgets.result = Ignored

\* C24: a disabled button refuses the focus, and no event given to its
\* on_event changes the selection of the group.
C24_DisabledButtonNotSelected ==
    [][\A i \in ButtonIndex, e \in RadioEvents :
          LET b == widgets.radio.buttons[i]
          IN ~IsEnabled(b)
                => /\ RadioCalled("take_focus", b.id)'
                         => widgets'.trace[2] = Call("return", NoEvent, "false")
                   /\ widgets'.trace = <<Call("button.on_event", e, ToString(b.id))>>
                         => SelectedId(widgets'.radio.state) = SelectedId(widgets.radio.state)]_vars

\* a disabled button refusing the focus
C24_WitnessFocus ==
    /\ RadioCalled("take_focus", 1)
    /\ ~IsEnabled(widgets.radio.buttons[2])
    /\ widgets.trace[2] = Call("return", NoEvent, "false")

----------------------------------------------------------------------------
(* PaddedView.                                                             *)

\* the last call on the PaddedView was `op` with that size
PaddedCalled(op, v) ==
    widgets.trace # <<>> /\ widgets.trace[1] = Call(op, NoEvent, VecStr(v))

\* a - b on one axis, 0 where b exceeds a
Minus(a, b) == IF a > b THEN a - b ELSE 0

\* C25: with combined margins m, required_size(s) asks the wrapped view
\* once, for s minus m, and answers that view's size plus m; layout(s) lays
\* the wrapped view out at s minus m; the subtraction gives 0 on an axis
\* where the margin exceeds the size; an event is given on with the left
\* and the top margin added, each on its axis, to the offset its position is
\* relative to, so that a mouse event left of or above the margins is
\* outside the wrapped view.
C25_PaddedSubtractsMargins ==
    [][\A s \in Sizes :
          LET m == Vec2(widgets.padded.margins.left + widgets.padded.margins.right,
                        widgets.padded.margins.top + widgets.padded.margins.bottom)
              less == Vec2(Minus(s.x, m.x), Minus(s.y, m.y))
              inner == widgets.padded.view
          IN /\ PaddedCalled("required_size", s)'
                   => /\ widgets'.trace[2] = Call("view.required_size", NoEvent, VecStr(less))
                      /\ Len(widgets'.trace) = 2
                      /\ widgets'.size.x = InnerRequiredSize(inner, less).x + m.x
                      /\ widgets'.size.y = InnerRequiredSize(inner, less).y + m.y
                      /\ widgets'.padded = widgets.padded
             /\ PaddedCalled("layout", s)'
                   => /\ widgets'.trace[2] = Call("view.layout", NoEvent, VecStr(less))
                      /\ Len(widgets'.trace) = 2
                      /\ widgets'.padded.view.size = less
                      /\ less.x >= 0 /\ less.y >= 0
                      /\ widgets'.padded.margins = widgets.padded.margins]_vars
    /\ [][\A e \in PaddedEvents :
             (widgets'.trace # <<>> /\ widgets'.trace[1] = Call("on_event", e, ""))
                => LET left == widgets.padded.margins.left
                       top == widgets.padded.margins.top
                       inner == widgets.padded.view
                       moved == IF e.type = "Mouse"
                                THEN [e EXCEPT !.offset = [x |-> e.offset.x + left,
                                                           y |-> e.offset.y + top]]
                                ELSE e
                   IN /\ widgets'.trace = <<Call("on_event", e, ""), Call("view.on_event", moved, "")>>
                      /\ moved.position = e.position
                      /\ widgets'.result = InnerOnEvent(inner, moved).result
                      /\ e.type = "Mouse"
                            => (widgets'.result # Ignored
                                  <=> /\ e.position.x >= left
                                      /\ e.position.x < left + inner.size.x
                                      /\ e.position.y >= top
                                      /\ e.position.y < top + inner.size.y)
                      /\ widgets'.padded = widgets.padded]_vars

\* a size smaller than the margins on one axis: the wrapped view is asked
\* for (0, 1) and the answer is the margins plus its size
C25_Witness ==
    /\ Combined(widgets.padded.margins) = Vec2(2, 1)
    /\ widgets.trace = <<Call("required_size", NoEvent, "1,2"),
                         Call("view.required_size", NoEvent, "0,1")>>
    /\ widgets.size = Vec2(2, 2)

\* a layout larger than the margins
C25_WitnessLayout ==
    /\ Combined(widgets.padded.margins) = Vec2(1, 1)
    /\ PaddedCalled("layout", Vec2(2, 2))
    /\ widgets.padded.view.size = Vec2(1, 1)

\* a mouse event inside the wrapped view, right of a left margin and below
\* a top margin: both margins are added to its offset and the view takes it
C25_WitnessEvent ==
    /\ widgets.padded.margins.left = 1
    /\ widgets.padded.margins.top = 1
    /\ widgets.padded.view.size = Vec2(1, 1)
    /\ widgets.trace = <<Call("on_event", MouseEvAt("Release", Vec2(1, 1), Vec2Zero), ""),
                         Call("view.on_event",
                              MouseEvAt("Release", Vec2(1, 1), Vec2(1, 1)), "")>>
    /\ widgets.result # Ignored

\* a mouse event in the left margin, on a row of the wrapped view: the view
\* is given it with the left margin in its offset and does not take it
C25_WitnessLeft ==
    /\ widgets.padded.margins.left = 1
    /\ widgets.padded.margins.top = 0
    /\ widgets.padded.view.size = Vec2(1, 1)
    /\ widgets.trace = <<Call("on_event", MouseEvAt("Release", Vec2(0, 0), Vec2Zero), ""),
                         Call("view.on_event",
                              MouseEvAt("Release", Vec2(0, 0), Vec2(1, 0)), "")>>
    /\ widgets.result = Ignored

----------------------------------------------------------------------------
(* Tracked.                                                                *)

\* the last call on the Tracked view was `op` with that size or offset
TrackedCalled(op, v) ==
    widgets.trace # <<>> /\ widgets.trace[1] = Call(op, NoEvent, VecStr(v))

\* C26: offset() is (0,0) at first; a draw records the offset of its printer
\* and draws the wrapped view with the same printer; no other operation
\* changes the recorded offset; required_size, layout and on_event are given
\* to the wrapped view with the same argument and answer what it answers.
C26_OffsetOfLastDraw ==
    /\ Offset(widgets.tracked) = [x |-> 0, y |-> 0]
    /\ [][\A v \in Sizes :
             LET inner == widgets.tracked.view
             IN /\ TrackedCalled("draw", v)'
                      => /\ Offset(widgets'.tracked) = v
                         /\ widgets'.trace = <<Call("draw", NoEvent, VecStr(v)),
                                               Call("view.draw", NoEvent, VecStr(v))>>
                         /\ widgets'.tracked.view = inner
                /\ TrackedCalled("required_size", v)'
                      => /\ widgets'.trace[2] = Call("view.required_size", NoEvent, VecStr(v))
                         /\ Len(widgets'.trace) = 2
                         /\ widgets'.size = InnerRequiredSize(inner, v)
                         /\ widgets'.tracked = widgets.tracked
                /\ TrackedCalled("layout", v)'
                      => /\ widgets'.trace[2] = Call("view.layout", NoEvent, VecStr(v))
                         /\ Len(widgets'.trace) = 2
                         /\ widgets'.tracked.view.size = v]_vars
    /\ [][\A e \in Events :
             (widgets'.trace # <<>> /\ widgets'.trace[1] = Call("on_event", e, ""))
                => /\ widgets'.trace = <<Call("on_event", e, ""), Call("view.on_event", e, "")>>
                   /\ widgets'.result = InnerOnEvent(widgets.tracked.view, e).result]_vars
    /\ [][Offset(widgets'.tracked) # Offset(widgets.tracked)
             => widgets'.trace[1].op = "draw"]_vars

\* a second draw at another offset, then a layout: the offset is the one of
\* the second draw
C26_Witness ==
    /\ TrackedCalled("layout", Vec2(2, 2))
    /\ Offset(widgets.tracked) = Vec2(1, 2)
    /\ widgets.tracked.view.size = Vec2(2, 2)

\* no draw yet
C26_WitnessBefore ==
    /\ TrackedCalled("layout", Vec2(1, 1))
    /\ Offset(widgets.tracked) = Vec2Zero

----------------------------------------------------------------------------
(* User data.                                                              *)

\* the last call on the controller was `op` for that type
DataCalled(op, type) ==
    siv.trace # <<>> /\ siv.trace[1] = Call(op, NoEvent, type)

\* what the last call returned
Returned == siv.trace[Len(siv.trace)].act

\* C27, take_user_data: with stored data of the type asked for it returns
\* the data and leaves the unit value stored; with data of another type it
\* returns None and leaves the stored data as it was.
TakeReturnsStored ==
    [][\A type \in DataTypes :
          DataCalled("take_user_data", type)'
             => IF siv.user_data.type = type
                THEN /\ Returned' = OptionStr(<<siv.user_data>>)
                     /\ siv'.user_data = [type |-> "unit", value |-> 0]
                ELSE /\ Returned' = "None"
                     /\ siv'.user_data = siv.user_data]_vars

\* C27: take_user_data as above, and user_data::<T>() returns the stored
\* data exactly when data of type T was set and has not been replaced or
\* taken since.
C27_UserDataWhenSet ==
    /\ TakeReturnsStored
    /\ [][\A type \in DataTypes :
             DataCalled("user_data", type)'
                => /\ (Returned' # "None") <=> (siv.held = <<type>>)
                   /\ Returned' # "None" => Returned' = OptionStr(<<siv.user_data>>)
                   /\ siv'.user_data = siv.user_data]_vars

\* C27 with the stored type deciding: user_data::<T>() returns the stored
\* data exactly when the stored data has type T, which for the unit type is
\* also the case when nothing was set or the data was taken.
C27_StoredTypeDecides ==
    /\ TakeReturnsStored
    /\ [][\A type \in DataTypes :
             DataCalled("user_data", type)'
                => /\ (Returned' # "None")
                         <=> \/ siv.held = <<type>>
                             \/ (type = "unit" /\ siv.held = <<>>)
                   /\ Returned' # "None" => Returned' = OptionStr(<<siv.user_data>>)
                   /\ siv'.user_data = siv.user_data]_vars

\* data changed by with_user_data and then taken
C27_WitnessTaken ==
    /\ DataCalled("take_user_data", "i32")
    /\ Returned = "Some(i32:2)"
    /\ siv.user_data = UnitData
    /\ siv.held = <<>>

\* user_data::<()>() on a controller whose data was never set
C27_WitnessUnit ==
    /\ DataCalled("user_data", "unit")
    /\ siv.held = <<>>
    /\ Returned = "Some(unit:0)"

----------------------------------------------------------------------------
(* The life of the controller.                                             *)

\* C28: while the owner holds a controller finish() has not been called;
\* once the controller is dropped, at the end of its scope or by a panic
\* that unwinds run(), finish() has been called exactly once, by that drop;
\* when backend_init fails, try_new returns its error, there is no
\* controller and finish() is never called.
C28_FinishOnceOnDrop ==
    /\ [](/\ pc \in Alive => (terminal.finished = 0 /\ terminal.state = "ready")
          /\ pc = "dropped" => terminal.finished = 1
          /\ pc = "failed" => /\ terminal.finished = 0
                              /\ siv = [exists |-> FALSE, err |-> terminal.err]
                              /\ terminal.err # ""
          /\ pc = "start" => terminal.finished = 0)
    /\ [][/\ terminal'.finished # terminal.finished
                => (pc \in Alive /\ pc' = "dropped")
          /\ (pc \in Alive /\ pc' \notin Alive) => pc' = "dropped"
          /\ pc \in {"dropped", "failed"} => pc' = pc]_vars

\* the controller dropped while a panic unwinds the loop
C28_Witness ==
    /\ pc = "dropped"
    /\ terminal.finished = 1
    /\ received

\* the controller dropped at the end of its scope
C28_WitnessScope ==
    /\ pc = "dropped"
    /\ terminal.finished = 1
    /\ ~received
    /\ boring

\* backend_init failed
C28_WitnessFailed ==
    /\ pc = "failed"
    /\ siv = NoController("tty")
    /\ terminal.finished = 0

\* quit() was called during the last step: by the application, or by a
\* callback that on_event ran
QuitCalled ==
    \/ siv.trace # <<>> /\ siv.trace[1].op = "quit"
    \/ \E k \in 1..Len(siv.trace) : siv.trace[k] = Call("cb", NoEvent, "quit")

\* C29: a new controller is running; is_running() turns false only when
\* quit() is called, and quit() leaves it false.  run() sets it to true on
\* entry, whatever it was, and starts a loop; the loop starts a step while
\* is_running() is true and run() returns only when it is false; after that
\* run() can be called again.
C29_RunsUntilQuit ==
    [][/\ (pc = "start" /\ pc' = "idle") => IsRunning(siv')
       /\ (pc \in Alive /\ pc' \in Alive)
             => /\ (IsRunning(siv) /\ ~IsRunning(siv')) => QuitCalled'
                /\ (QuitCalled' /\ siv' # siv) => ~IsRunning(siv')
                /\ (~IsRunning(siv) /\ IsRunning(siv')) => (pc = "idle" /\ pc' = "loop")
                /\ (pc = "idle" /\ pc' = "loop") => (IsRunning(siv') /\ in_run')
                /\ (pc = "loop" /\ IsRunning(siv)) => (pc' \in {"loop", "poll"} /\ in_run')
                /\ (pc = "loop" /\ ~IsRunning(siv)) => pc' \in {"loop", "idle"}
                /\ (in_run /\ ~in_run') => (pc = "loop" /\ ~IsRunning(siv))
                /\ (pc = "post" /\ in_run) => pc' \in {"post", "sleep", "loop"}
                /\ (pc = "sleep" /\ in_run) => pc' \in {"sleep", "loop"}]_vars

\* the first step of a second run: the first run was ended by quit(), and
\* run() has set running again and drawn
C29_Witness ==
    /\ pc = "poll"
    /\ in_run
    /\ IsRunning(siv)
    /\ received
    /\ siv.trace # <<>>
    /\ siv.trace[1].op = "boring_frame_count"

\* quit() called before the first run
C29_WitnessQuitFirst ==
    /\ pc = "idle"
    /\ ~IsRunning(siv)
    /\ siv.trace = <<Call("quit", NoEvent, "")>>
    /\ ~received

\* a run ended by quit()
C29_WitnessReturned ==
    /\ pc = "idle"
    /\ ~in_run
    /\ ~IsRunning(siv)
    /\ received

----------------------------------------------------------------------------
(* The value process_events and step return.                               *)

\* C30: from the entry of process_events on, `boring` is false exactly if an
\* input event was polled or a callback dequeued during the call; the value
\* returned is true exactly in that case, also when the call returns early;
\* step gives post_events that value and returns it.
C30_ReceivedIffSomething ==
    [][/\ (pc \notin {"poll", "drain"} /\ pc' = "poll") => boring'
       /\ (Polled \/ Received) => ~boring'
       /\ (pc \in {"poll", "drain"} /\ ~Polled /\ ~Received) => boring' = boring
       /\ (pc \in {"poll", "drain"} /\ pc' = "post") => (received' <=> ~boring')
       /\ (pc = "post" /\ pc' # "post")
             => /\ received' = received
                /\ siv'.trace[1] = Call("post_events", NoEvent,
                                        IF received THEN "true" ELSE "false")
       /\ (pc = "sleep" /\ pc' # "sleep")
             => /\ received' = received
                /\ ~received
                /\ siv'.trace[1] = Call("post_events", NoEvent, "false")]_vars

\* a step that took a callback from the channel and gave post_events true
C30_Witness ==
    /\ PostCalled(TRUE)
    /\ received
    /\ ~boring
    /\ siv.executed # <<>>
    /\ pc \in {"idle", "loop"}

\* a step that found nothing and gave post_events false
C30_WitnessNothing ==
    /\ PostCalled(FALSE)
    /\ ~received
    /\ boring
    /\ pc \in {"idle", "loop"}

----------------------------------------------------------------------------
(* Frames.                                                                 *)

\* the last method call drew a frame
Drew == Positions(siv.trace, "draw") # {}

\* C31: a draw clears the whole viewport, before it draws anything, exactly
\* when the sizes of the layers of the active screen differ from the sizes
\* recorded at the previous draw; after the draw the recorded sizes are the
\* sizes of the layers of the active screen, and nothing but a draw changes
\* the recorded sizes.
C31_ClearIffSizesChanged ==
    [][/\ \A d \in Positions(siv'.trace, "draw") :
             LET clears == Positions(siv'.trace, "clear")
                 sizes == LayerSizes(siv')
             IN /\ siv.last_sizes # sizes => clears = {d - 1}
                /\ siv.last_sizes = sizes => clears = {}
                /\ siv'.last_sizes = sizes
                /\ \A i \in 1..Len(siv'.trace) :
                      siv'.trace[i].op \in {"root.draw", "draw_bg", "menubar.draw", "draw_fg"}
                         => \A c \in clears : c < i
       /\ Positions(siv'.trace, "draw") = {} => siv'.last_sizes = siv.last_sizes]_vars

\* a frame that cleared the viewport because a layer of the screen changed its
\* size since the previous frame
C31_Witness ==
    /\ Drew
    /\ Cleared
    /\ Len(siv.last_sizes) = 1
    /\ siv.last_sizes[1] = 2

\* a frame of a screen with a layer that cleared nothing
C31_WitnessNoClear ==
    /\ Drew
    /\ ~Cleared
    /\ siv.last_sizes # <<>>

----------------------------------------------------------------------------
(* set_global_callback and clear_global_callbacks.                         *)

\* the callbacks a dispatch of the event to the controller runs, in order
Ran(s, e) == CallbacksRun(OnEvent(Fresh(s), e).trace)

\* the last method call was op(e, act)
GlobalCalled(op, e, act) == siv.trace # <<>> /\ siv.trace[1] = Call(op, e, act)

\* C32: after set_global_callback(E, cb) the callbacks tied to E are cb
\* alone, registered as a global callback, so that a dispatch of E runs cb
\* and none of the callbacks registered for E before; after
\* clear_global_callbacks(E) no callback is tied to E and a dispatch of E runs
\* none; both leave the callbacks of every other event, and what a dispatch
\* of another event runs, as they were.
C32_OnlyGlobalCallback ==
    [][\A e \in GlobalEvents :
          /\ \A act \in GlobalActs :
                (siv'.trace # <<>> /\ siv'.trace[1] = Call("set_global_callback", e, act))
                   => /\ Tied(siv', e) = <<CallbackEntry(e, "AfterChild", act)>>
                      /\ Ran(siv', e) = <<act>>
                      /\ \A o \in Events \ {e} :
                            /\ Tied(siv', o) = Tied(siv, o)
                            /\ Ran(siv', o) = Ran(siv, o)
          /\ (siv'.trace # <<>> /\ siv'.trace[1] = Call("clear_global_callbacks", e, ""))
                => /\ Tied(siv', e) = <<>>
                   /\ Ran(siv', e) = <<>>
                   /\ \A o \in Events \ {e} :
                         /\ Tied(siv', o) = Tied(siv, o)
                         /\ Ran(siv', o) = Ran(siv, o)
          /\ (siv'.trace # <<>> /\ siv'.trace[1] = Call("on_event", e, ""))
                => \A i \in 1..Len(CallbacksRun(siv'.trace)) :
                      \E j \in 1..Len(Tied(siv, e)) :
                         Tied(siv, e)[j].act = CallbacksRun(siv'.trace)[i]]_vars

\* set_global_callback on an event that had a pre-event and a global callback,
\* while another event keeps the callback it had
C32_Witness ==
    /\ GlobalCalled("set_global_callback", Ev("CtrlC"), "noop")
    /\ siv.trace[2] = Call("tied", Ev("CtrlC"), "2")
    /\ Tied(siv, Ev("Exit")) = <<CallbackEntry(Ev("Exit"), "BeforeChild", "quit")>>

\* clear_global_callbacks on an event that had a pre-event and a global
\* callback
C32_WitnessClear ==
    /\ GlobalCalled("clear_global_callbacks", Ev("CtrlC"), "")
    /\ siv.trace[2] = Call("tied", Ev("CtrlC"), "2")

\* the event dispatched after set_global_callback replaced its callback
C32_WitnessDispatch ==
    /\ Dispatched(Ev("CtrlC"))
    /\ CallbacksRun(siv.trace) = <<"clear">>
    /\ siv.running

----------------------------------------------------------------------------
\* C33: in one pass of process_events the polling loop dispatches the input
\* events in the order the backend holds them and runs no callback of the
\* channel; the draining loop starts only when the backend holds no input
\* event, so every event pending until then was dispatched first; once it
\* has started, the pass polls no input event and does not go back to
\* polling, even when input arrives meanwhile.
C33_InputBeforeCallbacks ==
    [][/\ Polled => /\ siv'.trace[1] = Call("on_event", Head(siv.input), "")
                    /\ siv'.executed = siv.executed
       /\ (pc = "poll" /\ pc' = "drain") => (siv.input = <<>> /\ siv' = siv)
       /\ (pc = "poll" /\ pc' = "post") => (Polled /\ ~siv'.running)
       /\ (pc = "poll") => pc' \in {"poll", "drain", "post"}
       /\ Received => pc = "drain"
       /\ (pc = "drain") => /\ pc' \in {"drain", "post"}
                            /\ \E n \in 0..MaxInput :
                                  SubSeq(siv'.input, 1, Len(siv'.input) - n) = siv.input]_vars

\* a pass that dispatched input and is draining the callbacks: a callback
\* was executed, and an input event that arrived since waits for the next pass
C33_Witness ==
    /\ pc = "drain"
    /\ siv.executed # <<>>
    /\ siv.input # <<>>
    /\ siv.trace # <<>>
    /\ siv.trace[1].op = "cb"

\* the polling loop dispatched the last pending event while a callback waits
\* in the channel
C33_WitnessOrder ==
    /\ pc = "poll"
    /\ Dispatched(Ev("Char_q"))
    /\ siv.input = <<>>
    /\ siv.cb_queue # <<>>
    /\ ~boring

----------------------------------------------------------------------------
\* the position of the one call of op in the log, 0 when it is not there once
Once(trace, op) ==
    IF Cardinality(Positions(trace, op)) = 1
    THEN CHOOSE i \in Positions(trace, op) : TRUE
    ELSE 0

\* the log holds a part of a refresh
RefreshParts(trace) ==
    \E op \in {"boring_frame_count", "layout", "draw", "root.draw", "draw_bg",
               "menubar.draw", "draw_fg", "backend.refresh"} : Positions(trace, op) # {}

\* C34: refresh sets the idle-frame counter to 0, then runs layout, then
\* draw, then the refresh of the backend, each once and in that order; draw
\* makes the background pass of the stack, then draws the menubar when it is
\* visible and does not draw it otherwise, then makes the foreground pass.
C34_RefreshOrder ==
    [][RefreshParts(siv'.trace) =>
          LET t == siv'.trace
              reset == Once(t, "boring_frame_count")
              layout == Once(t, "layout")
              draw == Once(t, "draw")
              bg == Once(t, "draw_bg")
              fg == Once(t, "draw_fg")
              present == Once(t, "backend.refresh")
              menu == Positions(t, "menubar.draw")
          IN /\ 0 < reset /\ reset < layout /\ layout < draw
             /\ draw < bg /\ bg < fg /\ fg < present
             /\ present = Len(t)
             /\ t[reset].act = "0"
             /\ siv'.boring_frame_count = 0
             /\ IF Visible(siv'.menubar)
                THEN Cardinality(menu) = 1 /\ \A m \in menu : bg < m /\ m < fg
                ELSE menu = {}]_vars

\* a refresh with a visible menubar over a screen with a layer
C34_Witness ==
    /\ Drew
    /\ Visible(siv.menubar)
    /\ Positions(siv.trace, "menubar.draw") # {}
    /\ Screen(siv) # <<>>

\* a refresh with a hidden menubar
C34_WitnessHidden ==
    /\ Drew
    /\ ~Visible(siv.menubar)
    /\ Positions(siv.trace, "menubar.draw") = {}

----------------------------------------------------------------------------
\* C35: with a change callback set, select() yields the callback exactly
\* when it changed the selected id of the group, and yields no callback when
\* the button was the selected one already.
C35_OnChangeOnlyWhenChanged ==
    [][\A i \in ButtonIndex :
          LET id == widgets.radio.buttons[i].id
          IN (/\ widgets.radio.state.on_change # <<>>
              /\ widgets'.trace = <<Call("select", NoEvent, ToString(id))>>)
                => /\ widgets'.radio.state.selection = id
                   /\ (widgets'.result.cb # <<>>) <=> (widgets.radio.state.selection # id)]_vars

\* select() on the button that is selected already, in a group with a change
\* callback: the callback is returned again
C35_WitnessReselect ==
    /\ RadioCalled("select", 0)
    /\ Len(widgets.radio.buttons) = 2
    /\ widgets.radio.state.on_change # <<>>
    /\ widgets.result = Consumed(<<"on_change:a">>)

----------------------------------------------------------------------------
\* the entries of the log made by the calls of op
Entries(trace, op) == {trace[i] : i \in Positions(trace, op)}

\* C36: the row offset of the menubar is 1 when autohide is off and 0 when it
\* is on.  layout gives the tree the rows of the screen less the offset, and
\* no rows when the screen has fewer rows than the offset; on_event gives the
\* tree a mouse event relative to the offset; draw gives the stack a printer
\* moved down by the offset, in every pass.
C36_MenubarOffset ==
    [][LET offset == IF siv'.menubar.autohide THEN 0 ELSE 1
           rows == siv'.screen_size
           size == IF rows >= offset THEN rows - offset ELSE 0
       IN /\ siv'.menubar.autohide = siv.menubar.autohide
             => /\ \A c \in Entries(siv'.trace, "root.layout") : c.act = ToString(size)
                /\ \A c \in Entries(siv'.trace, "root.draw") \cup
                            Entries(siv'.trace, "draw_bg") \cup
                            Entries(siv'.trace, "draw_fg") : c.act = ToString(offset)
                /\ \A e \in MouseEvents :
                      (siv'.trace # <<>> /\ siv'.trace[1] = Call("on_event", e, ""))
                         => \A c \in Entries(siv'.trace, "root.on_event") :
                               c.ev = [e EXCEPT !.offset = Vec2(0, offset)]
          /\ Entries(siv'.trace, "root.layout") # {}
                => \A i \in 1..Len(Screen(siv')) :
                      Screen(siv')[i].full => Screen(siv')[i].size = size]_vars

\* a layout of a terminal without rows while the menubar keeps its row: the
\* tree is given no rows
C36_Witness ==
    /\ siv.screen_size = 0
    /\ ~siv.menubar.autohide
    /\ Entries(siv.trace, "root.layout") = {Call("root.layout", NoEvent, "0")}
    /\ Entries(siv.trace, "draw_fg") = {Call("draw_fg", NoEvent, "1")}
    /\ Screen(siv) # <<>>

\* a mouse event on the second row given to the tree with the offset of the
\* menubar's row
C36_WitnessEvent ==
    /\ ~siv.menubar.autohide
    /\ Dispatched(MouseEv("Release", 1))
    /\ Entries(siv.trace, "root.on_event") = {Call("root.on_event", MouseEvAt("Release", Vec2(0, 1), Vec2(0, 1)), "")}

\* a layout with the menubar hidden: the tree is given every row
C36_WitnessAutohide ==
    /\ siv.menubar.autohide
    /\ siv.screen_size = ScreenRows
    /\ Entries(siv.trace, "root.layout") = {Call("root.layout", NoEvent, ToString(ScreenRows))}

----------------------------------------------------------------------------
\* the sequence p is the beginning of the sequence q
IsPrefix(p, q) == Len(p) <= Len(q) /\ SubSeq(q, 1, Len(p)) = p

\* C37: a pass of process_events that ends because running became false
\* executes no further callback and leaves the callbacks still in the channel
\* where they are; outside the draining loop no callback is executed or
\* taken from the channel, whose content stays the beginning of what it
\* holds later; the draining loop of a later pass takes the callbacks from
\* the front, so those left by the quit are executed first and in the order
\* they were sent.
C37_QueuedCallbacksKept ==
    [][/\ (pc \in {"poll", "drain"} /\ (Polled \/ Received) /\ ~siv'.running)
            => pc' = "post"
       /\ (pc # "drain")
            => /\ siv'.executed = siv.executed
               /\ IsPrefix(siv.cb_queue, siv'.cb_queue)
       /\ (pc = "drain" /\ ~Received)
            => IsPrefix(siv.cb_queue, siv'.cb_queue)
       /\ (pc = "drain" /\ Received)
            => /\ siv.cb_queue # <<>>
               /\ siv'.executed = Append(siv.executed, Head(siv.cb_queue).id)
               /\ IsPrefix(Tail(siv.cb_queue), siv'.cb_queue)]_vars

\* an input event called quit while two callbacks were queued: the pass has
\* ended and both are still in the channel, in the order they were sent
C37_Witness ==
    /\ pc = "post"
    /\ ~siv.running
    /\ Dispatched(Ev("CtrlC"))
    /\ siv.executed = <<>>
    /\ QueueIds = <<1, 2>>

\* a callback of the channel called quit while another callback was queued
\* behind it
C37_WitnessCallback ==
    /\ pc = "post"
    /\ ~siv.running
    /\ siv.trace # <<>>
    /\ siv.trace[1] = Call("cb", NoEvent, "quit")
    /\ siv.executed = <<1>>
    /\ QueueIds = <<2>>

\* the loop was run again after a quit and its draining loop has executed
\* the second callback
C37_WitnessNextRun ==
    /\ pc = "drain"
    /\ in_run
    /\ siv.running
    /\ received
    /\ siv.executed = <<1, 2>>
    /\ siv.trace # <<>>
    /\ siv.trace[1].op = "cb"

----------------------------------------------------------------------------
\* C38: a pass of process_events in which an input event or a callback left
\* running false returns true; step() then calls post_events(true), which
\* makes one refresh (one layout, one draw, one refresh of the backend) and
\* dispatches no refresh event, and returns to the loop of run(); the loop
\* sees running false, starts no further step and run() returns.
C38_LastStepRefreshes ==
    [][/\ (pc \in {"poll", "drain"} /\ (Polled \/ Received) /\ ~siv'.running)
            => (pc' = "post" /\ received')
       /\ (pc = "post" /\ received /\ pc' # "post")
            => /\ PostCalled(TRUE)'
               /\ Cardinality(Positions(siv'.trace, "layout")) = 1
               /\ Cardinality(Positions(siv'.trace, "draw")) = 1
               /\ Cardinality(Positions(siv'.trace, "backend.refresh")) = 1
               /\ RefreshEvents(siv'.trace) = {}
               /\ siv'.running = siv.running
               /\ siv'.executed = siv.executed
               /\ pc' = IF in_run THEN "loop" ELSE "idle"
       /\ (pc = "loop" /\ ~siv.running /\ pc' # "loop")
            => (pc' = "idle" /\ ~in_run' /\ siv' = siv)]_vars

\* inside run(): the step in which a callback called quit has made its
\* refresh, and the loop is about to see running false
C38_Witness ==
    /\ pc = "loop"
    /\ in_run
    /\ ~siv.running
    /\ PostCalled(TRUE)
    /\ Refreshed
    /\ siv.executed # <<>>

\* run() has returned after the quit
C38_WitnessReturned ==
    /\ pc = "idle"
    /\ ~in_run
    /\ ~siv.running
    /\ PostCalled(TRUE)
    /\ Refreshed

----------------------------------------------------------------------------
\* C39: a pass of process_events whose input was pending when its polling
\* loop started, and whose callbacks enqueue at most callbacks that enqueue
\* nothing, ends.  When a callback of the drain sends a callback through
\* cb_sink and leaves running true, the drain goes on with that callback in
\* the channel; the drain ends only when it finds the channel empty or when
\* running is false after a callback.
C39_PassTerminates ==
    /\ (pc = "poll") ~> (pc = "post")
    /\ [][/\ (pc = "drain" /\ pc' = "post")
               => \/ (siv.cb_queue = <<>> /\ ~Received)
                  \/ (Received /\ ~siv'.running)
          /\ (pc = "drain" /\ Received /\ siv'.running)
               => /\ pc' = "drain"
                  /\ Head(siv.cb_queue).act = "send"
                        => /\ siv'.cb_queue # <<>>
                           /\ siv'.cb_queue[Len(siv'.cb_queue)].id = siv.nsent + 1]_vars

\* the drain has executed a callback of the producer and then the callback
\* that callback sent, in one pass
C39_Witness ==
    /\ pc = "drain"
    /\ sent["p1"] = 1
    /\ siv.nsent = 2
    /\ siv.executed = <<1, 2>>
    /\ siv.trace # <<>>
    /\ siv.trace[1] = Call("cb", NoEvent, "noop")

\* a pass that polled an input event and executed a callback has ended
C39_WitnessEnded ==
    /\ pc = "post"
    /\ received
    /\ siv.running
    /\ siv.executed # <<>>
    /\ siv.input = <<>>

----------------------------------------------------------------------------
\* the last method call set the idle-frame counter to 0, as refresh does
CounterReset == Positions(siv.trace, "boring_frame_count") # {}

\* C40: the idle-frame counter grows only in post_events(false), by one from
\* its value or from the 0 a refresh of that call left; it is lowered only by
\* a refresh, which leaves 0; after a post_events call with a frame rate f
\* of 1 to 33 (1000/30/1) it is at most 1000/30/f; with no frame rate, post_events(false)
\* adds one and refreshes nothing.
C40_IdleCounter ==
    [][LET count == siv.boring_frame_count
           after == siv'.boring_frame_count
       IN /\ after > count => (PostCalled(FALSE)' /\ after = count + 1)
          /\ PostCalled(FALSE)' => after = (IF CounterReset' THEN 0 ELSE count) + 1
          /\ after < count => CounterReset'
          /\ (CounterReset' /\ ~PostCalled(FALSE)') => after = 0
          /\ after # count => \/ PostCalled(FALSE)' \/ PostCalled(TRUE)'
                              \/ siv'.trace[1] = Call("boring_frame_count", NoEvent, "0")
          /\ ((PostCalled(FALSE)' \/ PostCalled(TRUE)') /\ siv.fps \in 1..Repeats(1))
                => after <= Repeats(siv.fps)
          /\ (PostCalled(FALSE)' /\ siv.fps = 0)
                => (after = count + 1 /\ ~CounterReset' /\ NotRefreshed')]_vars

\* at 3 frames per second the counter has reached 1000/30/3 = 11 by idle
\* cycles
C40_Witness ==
    /\ siv.fps = 3
    /\ siv.boring_frame_count = 11
    /\ PostCalled(FALSE)
    /\ ~CounterReset

\* at 3 frames per second an idle cycle has refreshed and counted from 0
C40_WitnessReset ==
    /\ siv.fps = 3
    /\ siv.boring_frame_count = 1
    /\ PostCalled(FALSE)
    /\ CounterReset

\* with no frame rate the counter has passed every period of a frame rate
C40_WitnessDisabled ==
    /\ siv.fps = 0
    /\ siv.boring_frame_count > Repeats(1)
    /\ PostCalled(FALSE)

====
